---- MODULE Spec2Model ----
(***************************************************************************)
(* Model of the Sphinx multi-chain authorization flow.                     *)
(*                                                                         *)
(* The orchestration modelled here is the one of                           *)
(* packages/plugins/test/helpers.ts (setupThenProposeThenApproveDeployment *)
(* ThenExecute, proposeThenApproveDeploymentThenExecute, getSignatures).   *)
(* The Auth and Manager contracts those helpers call are not part of the   *)
(* sources at hand; their transitions are modelled from the specification  *)
(* (section 4.4, 4.6) and from the expectations the helpers state after    *)
(* each call.                                                              *)
(***************************************************************************)
EXTENDS Integers, Sequences, FiniteSets, TLC

\* ------------------------------------------------------------------ bounds
NumChains == 2
MaxExec == 2
OwnerThreshold == 2
MaxNetworks == 2
MaxActions == 2
NumKeys == 4
MaxCandidates == 3

\* ------------------------------------------------------------------ values
Chains == 1..NumChains

EMPTY == "EMPTY"
SETUP == "SETUP"
PROPOSED == "PROPOSED"
COMPLETED == "COMPLETED"
AuthStatus == {EMPTY, SETUP, PROPOSED, COMPLETED}

\* Position of a status on the line EMPTY -> SETUP -> PROPOSED -> COMPLETED.
StatusRank(s) ==
  CASE s = EMPTY -> 0
    [] s = SETUP -> 1
    [] s = PROPOSED -> 2
    [] s = COMPLETED -> 3

\* The root of the proposal's tree, and a root no leaf of the tree verifies against.
Root == "root"
OtherRoot == "otherRoot"
Roots == {Root, OtherRoot}

ZeroHash == <<"0x00">>

\* Deployment status of the Manager contract.
DeploymentStatus == {"EMPTY", "APPROVED", "COMPLETED"}

\* An AuthState nobody has written to yet.
EmptyAuthState == [status |-> EMPTY, leafsExecuted |-> 0, numLeafs |-> 0]

\* ------------------------------------------------------------------ signers
\* Private keys are small integers.  The address of a key is not monotonic in
\* the key, so sorting by address differs from sorting by key.
WalletAddress(k) == (k * 5) % 7

OwnerPrivateKeys == <<1, 2, 3>>
ProposerPrivateKey == 4

OwnerAddresses == {WalletAddress(OwnerPrivateKeys[i]) : i \in 1..Len(OwnerPrivateKeys)}
ProposerAddresses == {WalletAddress(ProposerPrivateKey)}

\* Variant of SignAuthRootMetaTxn: every signature is made with one wallet.
SignAuthRootMetaTxnOneWallet(k, rt) == [signer |-> WalletAddress(1), root |-> rt]

\* signAuthRootMetaTxn: a signature names its signer and the root it is over.
SignAuthRootMetaTxn(k, rt) == [signer |-> WalletAddress(k), root |-> rt]

\* Insert key k into a list already sorted by address; equal addresses keep
\* their input order (Array.prototype.sort is stable).
RECURSIVE InsertByAddress(_, _)
InsertByAddress(sorted, k) ==
  IF sorted = <<>> THEN <<k>>
  ELSE IF WalletAddress(k) < WalletAddress(Head(sorted))
       THEN <<k>> \o sorted
       ELSE <<Head(sorted)>> \o InsertByAddress(Tail(sorted), k)

RECURSIVE SortedOwnerPrivateKeys(_)
SortedOwnerPrivateKeys(keys) ==
  IF keys = <<>> THEN <<>>
  ELSE InsertByAddress(SortedOwnerPrivateKeys(SubSeq(keys, 1, Len(keys) - 1)),
                       keys[Len(keys)])

\* The loop of getSignatures: sign, push, and stop when the count equals the
\* threshold.
RECURSIVE CollectSignatures(_, _, _, _)
CollectSignatures(sorted, rt, threshold, signatures) ==
  IF sorted = <<>> THEN signatures
  ELSE LET pushed == Append(signatures, SignAuthRootMetaTxn(Head(sorted), rt))
       IN IF Len(pushed) = threshold
          THEN pushed
          ELSE CollectSignatures(Tail(sorted), rt, threshold, pushed)

GetSignatures(ownerPrivateKeys, rt, threshold) ==
  CollectSignatures(SortedOwnerPrivateKeys(ownerPrivateKeys), rt, threshold, <<>>)

\* Variant of LengthAsExpected: a shorter array passes too.
LengthAtMostExpected(sigs, expected) == Len(sigs) <= expected

\* The callers' expectation on what getSignatures returned (helpers.ts 147,
\* 189, 290): expect(signatures.length).equals(threshold).
LengthAsExpected(sigs, expected) == Len(sigs) = expected

\* ------------------------------------------------------------------ state
VARIABLES
  leaves,              \* proposalRequest.tree.leaves: the leaves of the one tree
  authStates,          \* Auth.authStates, per chain and per root
  proposerRole,        \* per chain: Auth.hasRole(PROPOSER_ROLE, proposer)
  activeDeploymentId,  \* per chain: Manager.activeDeploymentId()
  deployments,         \* per chain: Manager.deployments(deploymentId)
  accepted,            \* per chain: the leaves the chain accepted, in order (history)
  pc,                  \* the helper's position
  entry,               \* which exported helper this run entered
  net,                 \* index into networksToAdd of the loop the run is in
  authState,           \* the helper's local variable authState (last read)
  success,             \* the helper's local variable success
  submitted,           \* per chain: indices of the leaves this run handed in (history)
  failure,             \* where and why the run threw, or NoFailure
  candidates,          \* getSignatures: the key list as the caller passed it (history)
  sigKeys,             \* getSignatures: the array ownerPrivateKeys (sorted in place)
  sigThreshold,        \* getSignatures: the parameter threshold
  sigReturned,         \* getSignatures: the returned array
  sigPc,               \* getSignatures: not called yet, returned, used or thrown
  collected,           \* buildParsedConfigArray: what the script collects per network
  isDryRun,            \* propose: args.isDryRun
  confirm,             \* propose: args.confirm
  forceRecompile,      \* propose: args.forceRecompile
  silent,              \* propose: args.silent
  deploymentInfoFile,  \* buildParsedConfigArray: the file at deploymentInfoPath
  networkName,         \* buildParsedConfigArray: position of the loop over networkNames
  pushed,              \* buildParsedConfigArray: the local array collected, as pushed so far
  gasEstimatesPromises, \* propose: gasEstimatesPromises, each pending or settled
  ppc,                 \* propose: position
  calls,               \* propose: the calls to collaborators so far, in order (history)
  isEmpty,             \* propose: isEmpty as buildParsedConfigArray reported it
  parsedConfigArray,   \* propose: parsedConfigArray (<<>> while undefined)
  merkleTree,          \* propose: merkleTree, or NoTree
  gasEstimates,        \* propose: gasEstimates
  proposalRequest,     \* propose: proposalRequest, or NoRequest
  constructed,         \* propose: proposalRequest as it was constructed (history)
  returned,            \* propose: what the call returned, or NotReturned
  treeInput,           \* tree builder: the leaves as supplied, in supply order
  firstTree,           \* tree builder: the tree built from treeInput, or NoMerkleTree
  secondInput,         \* tree builder: the same leaves as supplied a second time
  secondTree,          \* tree builder: the tree built from secondInput, or NoMerkleTree
  presented,           \* verifier: the leaf and proof handed in, or NothingPresented
  verdict,             \* verifier: whether the proof verified against firstTree.root
  fs,                  \* writeSampleProjectFiles: the file system, path by path
  sampleArgs,          \* writeSampleProjectFiles: the arguments
  sampleCalls          \* writeSampleProjectFiles: per call made, the file system
                       \* before it and whether it threw (history)

chainVars == <<authStates, proposerRole, activeDeploymentId, deployments, accepted>>
runVars == <<pc, entry, net, authState, success, submitted, failure>>
sigVars == <<candidates, sigKeys, sigThreshold, sigReturned, sigPc>>
propVars == <<collected, isDryRun, confirm, forceRecompile, silent,
              deploymentInfoFile, networkName, pushed, gasEstimatesPromises,
              ppc, calls, isEmpty, parsedConfigArray, merkleTree, gasEstimates,
              proposalRequest, constructed, returned>>
treeVars == <<treeInput, firstTree, secondInput, secondTree, presented, verdict>>
sampleVars == <<fs, sampleArgs, sampleCalls>>
vars == <<leaves, chainVars, runVars, sigVars, propVars, treeVars, sampleVars>>

\* ------------------------------------------------------------------ leaves
LeafTypes == {"setup", "propose", "approve", "execute"}

\* Number of actions collected for a chain: chain 1 carries MaxExec actions,
\* every other chain one (a chain without actions is dropped from a proposal).
NumActions(c) == IF c = 1 THEN MaxExec ELSE 1

\* LeafBuilder (specification 4.1): an optional SETUP leaf at index 0, one
\* PROPOSE leaf, one APPROVE leaf, then one EXECUTE leaf per action; indices in
\* emission order.  SETUP and PROPOSE leaves declare the chain's leaf count.
LeafBuilder(c, setupRequired, numActions) ==
  LET first == IF setupRequired THEN 1 ELSE 0
      total == first + 2 + numActions
      Leaf(i, t) == [chainId |-> c, index |-> i, leafType |-> t,
                     numLeafs |-> IF t \in {"setup", "propose"} THEN total ELSE 0]
  IN (IF setupRequired THEN {Leaf(0, "setup")} ELSE {})
     \cup {Leaf(first, "propose"), Leaf(first + 1, "approve")}
     \cup {Leaf(first + 1 + j, "execute") : j \in 1..numActions}

MakeLeaves(setupRequired) ==
  UNION {LeafBuilder(c, setupRequired[c], NumActions(c)) : c \in Chains}

MaxIndex == 2 + MaxExec

\* A leaf that is in no tree: its proof verifies against no root.
ForgedLeaf == [chainId |-> 1, index |-> 0, leafType |-> "approve", numLeafs |-> 0]

\* ------------------------------------------------------------------ helpers.ts
\* proposeThenApproveDeploymentThenExecute, lines 159-176, 179-181, 201.
ContainsSetupLeaf(chainId) ==
  \E leaf \in leaves : leaf.leafType = "setup" /\ leaf.chainId = chainId

\* Variant of ExpectedNumLeafs: the leaves of all chains are counted.
ExpectedNumLeafsOfAllChains(chainId) == Cardinality(leaves)

ExpectedNumLeafs(chainId) ==
  Cardinality({leaf \in leaves : leaf.chainId = chainId})

\* Variant of ProposalLeafIndex: the SETUP leaf is not looked for.
ProposalLeafIndexAlwaysZero(chainId) == 0

ProposalLeafIndex(chainId) == IF ContainsSetupLeaf(chainId) THEN 1 ELSE 0

\* Variant of ApproveDeploymentLeafIndex: the proposal leaf's index again.
ApproveDeploymentLeafIndexSame(chainId) == ProposalLeafIndex(chainId)

ApproveDeploymentLeafIndex(chainId) == ProposalLeafIndex(chainId) + 1

\* Variant of ExpectedInitialStatus: the SETUP leaf is not looked for.
ExpectedInitialStatusAlwaysEmpty(chainId) == EMPTY

\* Variant of ExpectedInitialStatus: whatever the chain reports is expected.
ExpectedInitialStatusAsReported(chainId) == authStates[chainId][Root].status

ExpectedInitialStatus(chainId) ==
  IF ContainsSetupLeaf(chainId) THEN SETUP ELSE EMPTY

\* Variant of ExpectedLeafsExecuted: the SETUP leaf is not counted.
ExpectedLeafsExecutedWithoutSetup(chainId) == 1

ExpectedLeafsExecuted(chainId) == IF ContainsSetupLeaf(chainId) THEN 2 ELSE 1

\* findProposalRequestLeaf: the leaf of the chain with the index; NoLeaf when
\* there is none (the function throws).
NoLeaf == [chainId |-> 0, index |-> 0, leafType |-> "none", numLeafs |-> 0]

FindProposalRequestLeaf(index, chainId) ==
  IF \E leaf \in leaves : leaf.index = index /\ leaf.chainId = chainId
  THEN CHOOSE leaf \in leaves : leaf.index = index /\ leaf.chainId = chainId
  ELSE NoLeaf

\* getDeploymentId(bundles, configUri): the identifier of a chain's bundle.
GetDeploymentId(chainId) == <<"deployment", chainId>>

\* ------------------------------------------------------------------ contracts
\* The on-chain verifier: at least threshold signatures over the root, by
\* signers holding the role, in strictly ascending order of signer address.
ValidSignatures(signatures, rt, signers, threshold) ==
  /\ Len(signatures) >= threshold
  /\ \A i \in 1..Len(signatures) :
       /\ signatures[i].root = rt
       /\ signatures[i].signer \in signers
  /\ \A i \in 1..(Len(signatures) - 1) :
       signatures[i].signer < signatures[i + 1].signer

\* Merkle proof verification of a leaf against a root: only the leaves of the
\* tree verify, and only against the tree's root.
VerifyProof(rt, leaf) == rt = Root /\ leaf \in leaves

\* The guard every leaf submission passes: right chain, valid proof, the next
\* expected index, enough valid signatures.
IsValidLeaf(c, rt, leaf, signatures, signers, threshold) ==
  /\ leaf.chainId = c
  /\ VerifyProof(rt, leaf)
  /\ leaf.index = authStates[c][rt].leafsExecuted
  /\ ValidSignatures(signatures, rt, signers, threshold)

\* Variant of SetupAccepts: the status and the index of the leaf go unchecked.
SetupAcceptsAnyState(c, rt, leaf, signatures) ==
  /\ leaf.leafType = "setup"
  /\ leaf.chainId = c
  /\ VerifyProof(rt, leaf)
  /\ ValidSignatures(signatures, rt, OwnerAddresses, OwnerThreshold)

\* Auth.setup: EMPTY + SETUP leaf (index 0) -> SETUP, leafsExecuted = 1; the
\* chain's leaf count is the one the leaf declares.
SetupAccepts(c, rt, leaf, signatures) ==
  /\ leaf.leafType = "setup"
  /\ authStates[c][rt].status = EMPTY
  /\ IsValidLeaf(c, rt, leaf, signatures, OwnerAddresses, OwnerThreshold)

\* Variant of SetupState: the leaf count stays unknown until PROPOSE.
SetupStateNumLeafsUnknown(c, rt, leaf) ==
  [status |-> SETUP, leafsExecuted |-> 1, numLeafs |-> authStates[c][rt].numLeafs]

SetupState(c, rt, leaf) ==
  [status |-> SETUP, leafsExecuted |-> 1, numLeafs |-> leaf.numLeafs]

\* Auth.propose: EMPTY or SETUP + PROPOSE leaf -> PROPOSED, leafsExecuted + 1,
\* numLeafs as declared; one proposer signature.
ProposeAccepts(c, rt, leaf, signatures) ==
  /\ leaf.leafType = "propose"
  /\ authStates[c][rt].status \in {EMPTY, SETUP}
  /\ proposerRole[c]
  /\ IsValidLeaf(c, rt, leaf, signatures, ProposerAddresses, 1)

ProposeState(c, rt, leaf) ==
  [status |-> PROPOSED,
   leafsExecuted |-> authStates[c][rt].leafsExecuted + 1,
   numLeafs |-> leaf.numLeafs]

\* Auth.approveDeployment: PROPOSED + APPROVE leaf -> COMPLETED,
\* leafsExecuted + 1; the Manager's active deployment becomes the bundle's.
ApproveAccepts(c, rt, leaf, signatures) ==
  /\ leaf.leafType = "approve"
  /\ authStates[c][rt].status = PROPOSED
  /\ IsValidLeaf(c, rt, leaf, signatures, OwnerAddresses, OwnerThreshold)

ApproveState(c, rt, leaf) ==
  [authStates[c][rt] EXCEPT !.status = COMPLETED,
                            !.leafsExecuted = authStates[c][rt].leafsExecuted + 1]

\* Manager.claimDeployment: the approved, unclaimed active deployment.
ClaimAccepts(c) ==
  /\ activeDeploymentId[c] # ZeroHash
  /\ deployments[c].status = "APPROVED"
  /\ ~deployments[c].claimed

\* An EXECUTE leaf: accepted on the claimed deployment, at the next index.
ExecuteAccepts(c, rt, leaf) ==
  /\ leaf.leafType = "execute"
  /\ authStates[c][rt].status = COMPLETED
  /\ deployments[c].status = "APPROVED"
  /\ deployments[c].claimed
  /\ leaf.chainId = c
  /\ VerifyProof(rt, leaf)
  /\ leaf.index = authStates[c][rt].leafsExecuted

ExecuteState(c, rt, leaf) ==
  [authStates[c][rt] EXCEPT !.leafsExecuted = authStates[c][rt].leafsExecuted + 1]

\* Variant of ApplyApprove: the Manager's active deployment is not set.
ApplyApproveWithoutDeployment(c, rt, leaf) ==
  /\ authStates' = [authStates EXCEPT ![c][rt] = ApproveState(c, rt, leaf)]
  /\ deployments' = [deployments EXCEPT ![c].status = "APPROVED"]
  /\ accepted' = [accepted EXCEPT ![c] = Append(accepted[c], leaf)]
  /\ UNCHANGED <<proposerRole, activeDeploymentId>>

\* The effect of each accepted call on the chain's state.
ApplySetup(c, rt, leaf) ==
  /\ authStates' = [authStates EXCEPT ![c][rt] = SetupState(c, rt, leaf)]
  /\ proposerRole' = [proposerRole EXCEPT ![c] = TRUE]
  /\ accepted' = [accepted EXCEPT ![c] = Append(accepted[c], leaf)]
  /\ UNCHANGED <<activeDeploymentId, deployments>>

ApplyPropose(c, rt, leaf) ==
  /\ authStates' = [authStates EXCEPT ![c][rt] = ProposeState(c, rt, leaf)]
  /\ accepted' = [accepted EXCEPT ![c] = Append(accepted[c], leaf)]
  /\ UNCHANGED <<proposerRole, activeDeploymentId, deployments>>

ApplyApprove(c, rt, leaf) ==
  /\ authStates' = [authStates EXCEPT ![c][rt] = ApproveState(c, rt, leaf)]
  /\ activeDeploymentId' = [activeDeploymentId EXCEPT ![c] = GetDeploymentId(c)]
  /\ deployments' = [deployments EXCEPT ![c].status = "APPROVED"]
  /\ accepted' = [accepted EXCEPT ![c] = Append(accepted[c], leaf)]
  /\ UNCHANGED proposerRole

ApplyClaim(c) ==
  /\ deployments' = [deployments EXCEPT ![c].claimed = TRUE]
  /\ UNCHANGED <<authStates, proposerRole, activeDeploymentId, accepted>>

\* The deployment completes with its last EXECUTE leaf.
ApplyExecute(c, rt, leaf) ==
  /\ authStates' = [authStates EXCEPT ![c][rt] = ExecuteState(c, rt, leaf)]
  /\ deployments' = [deployments EXCEPT ![c].status =
        IF authStates[c][rt].leafsExecuted + 1 = authStates[c][rt].numLeafs
        THEN "COMPLETED" ELSE "APPROVED"]
  /\ accepted' = [accepted EXCEPT ![c] = Append(accepted[c], leaf)]
  /\ UNCHANGED <<proposerRole, activeDeploymentId>>

\* ------------------------------------------------------------------ propose: values
\* merkleTree, proposalRequest and the result of propose before they exist.
NoTree == [root |-> "none", leavesWithProofs |-> {}]

NoRequest == [undefined |-> TRUE]

NotReturned == [pending |-> TRUE]

\* No file at deploymentInfoPath.
NoFile == [exists |-> FALSE]

\* propose is not called in this specification.
ProposeNotCalled ==
  /\ collected = <<>>
  /\ isDryRun = FALSE
  /\ confirm = FALSE
  /\ forceRecompile = FALSE
  /\ silent = FALSE
  /\ deploymentInfoFile = NoFile
  /\ networkName = 0
  /\ pushed = <<>>
  /\ gasEstimatesPromises = <<>>
  /\ ppc = "idle"
  /\ calls = <<>>
  /\ isEmpty = FALSE
  /\ parsedConfigArray = <<>>
  /\ merkleTree = NoTree
  /\ gasEstimates = <<>>
  /\ proposalRequest = NoRequest
  /\ constructed = NoRequest
  /\ returned = NotReturned

\* ------------------------------------------------------------------ tree: values
\* The tree before it is built and the verifier before anything is handed in.
NoMerkleTree == [root |-> <<"none">>, leavesWithProofs |-> {}]

NothingPresented == [undefined |-> TRUE]

\* The tree builder is not called in this specification.
TreeNotBuilt ==
  /\ treeInput = <<>>
  /\ firstTree = NoMerkleTree
  /\ secondInput = <<>>
  /\ secondTree = NoMerkleTree
  /\ presented = NothingPresented
  /\ verdict = FALSE

\* writeSampleProjectFiles is not called in this specification.
NoArgs == [undefined |-> TRUE]

SampleNotCalled ==
  /\ fs = <<>>
  /\ sampleArgs = NoArgs
  /\ sampleCalls = <<>>

\* ------------------------------------------------------------------ the run
NetworksToAdd == [i \in 1..NumChains |-> i]

NoFailure == [chainId |-> 0, at |-> "none", reason |-> "none"]

NoneSubmitted == [c \in Chains |-> <<>>]

OwnerSignatures == GetSignatures(OwnerPrivateKeys, Root, OwnerThreshold)
ProposerSignatureArray == GetSignatures(<<ProposerPrivateKey>>, Root, 1)

\* The chain the loop is at.
ChainId == NetworksToAdd[net]

\* Variant of Fail: the error is noted and the loop goes on with the next
\* network.
FailAndContinue(reason) ==
  /\ failure' = [chainId |-> ChainId, at |-> pc, reason |-> reason]
  /\ pc' = IF pc \in {"s_read", "s_setup", "s_check"}
           THEN IF net < Len(NetworksToAdd) THEN "s_read" ELSE "p_read"
           ELSE IF net < Len(NetworksToAdd) THEN "p_read" ELSE "done"
  /\ net' = IF net < Len(NetworksToAdd)
            THEN net + 1
            ELSE IF pc \in {"s_read", "s_setup", "s_check"} THEN 1 ELSE net
  /\ UNCHANGED <<entry, success>>

\* A thrown error (a failed expect, a reverted call, an unreachable chain) ends
\* the run where it is.
Fail(reason) ==
  /\ pc' = "failed"
  /\ failure' = [chainId |-> ChainId, at |-> pc, reason |-> reason]
  /\ UNCHANGED <<entry, net, success>>

Goto(next) ==
  /\ pc' = next
  /\ UNCHANGED <<entry, net, success, failure>>

\* The run hands the leaf with the index to the chain.
Submits(index) ==
  submitted' = [submitted EXCEPT ![ChainId] = Append(submitted[ChainId], index)]

Init ==
  /\ leaves \in {MakeLeaves(setupRequired) : setupRequired \in [Chains -> BOOLEAN]}
  /\ authStates = [c \in Chains |-> [rt \in Roots |-> EmptyAuthState]]
  /\ proposerRole = [c \in Chains |->
        ~\E leaf \in leaves : leaf.chainId = c /\ leaf.leafType = "setup"]
  /\ activeDeploymentId = [c \in Chains |-> ZeroHash]
  /\ deployments = [c \in Chains |-> [status |-> "EMPTY", claimed |-> FALSE]]
  /\ accepted = [c \in Chains |-> <<>>]
  /\ entry \in {"setupThenProposeThenApproveDeploymentThenExecute",
                "proposeThenApproveDeploymentThenExecute"}
  /\ pc = IF entry = "setupThenProposeThenApproveDeploymentThenExecute"
          THEN "s_read" ELSE "p_read"
  /\ net = 1
  /\ authState = EmptyAuthState
  /\ success = FALSE
  /\ submitted = NoneSubmitted
  /\ failure = NoFailure
  /\ candidates = OwnerPrivateKeys
  /\ sigKeys = OwnerPrivateKeys
  /\ sigThreshold = OwnerThreshold
  /\ sigReturned = <<>>
  /\ sigPc = "idle"
  /\ ProposeNotCalled
  /\ TreeNotBuilt
  /\ SampleNotCalled

\* setupThenProposeThenApproveDeploymentThenExecute, lines 285-309: collect the
\* owner signatures, read the AuthState, expect it empty.
SetupRead ==
  /\ pc = "s_read"
  /\ authState' = authStates[ChainId][Root]
  /\ UNCHANGED <<leaves, sigVars, propVars, treeVars, sampleVars, chainVars, submitted>>
  /\ IF /\ LengthAsExpected(OwnerSignatures, OwnerThreshold)
        /\ ~proposerRole[ChainId]
        /\ authState'.status = EMPTY
        /\ authState'.leafsExecuted = 0
        /\ authState'.numLeafs = 0
     THEN Goto("s_setup")
     ELSE Fail("expect")

\* lines 299, 311-316: Auth.setup with the leaf of index 0.
SetupSubmit ==
  /\ pc = "s_setup"
  /\ UNCHANGED <<leaves, sigVars, propVars, treeVars, sampleVars, authState>>
  /\ Submits(0)
  /\ LET setupLeaf == FindProposalRequestLeaf(0, ChainId)
     IN IF SetupAccepts(ChainId, Root, setupLeaf, OwnerSignatures)
        THEN ApplySetup(ChainId, Root, setupLeaf) /\ Goto("s_check")
        ELSE UNCHANGED chainVars /\ Fail("revert")

\* lines 318-329: the expectations after setup, then the next network or the
\* call of proposeThenApproveDeploymentThenExecute (line 331).
SetupCheck ==
  /\ pc = "s_check"
  /\ authState' = authStates[ChainId][Root]
  /\ UNCHANGED <<leaves, sigVars, propVars, treeVars, sampleVars, chainVars, submitted>>
  /\ IF /\ proposerRole[ChainId]
        /\ authState'.status = SETUP
        /\ authState'.leafsExecuted = 1
        /\ authState'.numLeafs = ExpectedNumLeafs(ChainId)
     THEN /\ pc' = IF net < Len(NetworksToAdd) THEN "s_read" ELSE "p_read"
          /\ net' = IF net < Len(NetworksToAdd) THEN net + 1 ELSE 1
          /\ UNCHANGED <<entry, success, failure>>
     ELSE Fail("expect")

\* proposeThenApproveDeploymentThenExecute, lines 142-147 and 178-182: collect
\* the owner signatures, read the AuthState, expect the initial status.
ProposeRead ==
  /\ pc = "p_read"
  /\ authState' = authStates[ChainId][Root]
  /\ UNCHANGED <<leaves, sigVars, propVars, treeVars, sampleVars, chainVars, submitted>>
  /\ IF /\ LengthAsExpected(OwnerSignatures, OwnerThreshold)
        /\ authState'.status = ExpectedInitialStatus(ChainId)
     THEN Goto("p_propose")
     ELSE Fail("expect")

\* lines 184-195: one proposer signature, then Auth.propose with the proposal
\* leaf.
ProposeSubmit ==
  /\ pc = "p_propose"
  /\ UNCHANGED <<leaves, sigVars, propVars, treeVars, sampleVars, authState>>
  /\ LET proposalLeaf == FindProposalRequestLeaf(ProposalLeafIndex(ChainId), ChainId)
     IN IF ~LengthAsExpected(ProposerSignatureArray, 1)
        THEN UNCHANGED <<chainVars, submitted>> /\ Fail("expect")
        ELSE /\ Submits(proposalLeaf.index)
             /\ IF ProposeAccepts(ChainId, Root, proposalLeaf, ProposerSignatureArray)
                THEN ApplyPropose(ChainId, Root, proposalLeaf) /\ Goto("p_check")
                ELSE UNCHANGED chainVars /\ Fail("revert")

\* lines 197-206: the expectations after propose, and no active deployment.
ProposeCheck ==
  /\ pc = "p_check"
  /\ authState' = authStates[ChainId][Root]
  /\ UNCHANGED <<leaves, sigVars, propVars, treeVars, sampleVars, chainVars, submitted>>
  /\ IF /\ authState'.status = PROPOSED
        /\ authState'.numLeafs = ExpectedNumLeafs(ChainId)
        /\ authState'.leafsExecuted = ExpectedLeafsExecuted(ChainId)
        /\ activeDeploymentId[ChainId] = ZeroHash
     THEN Goto("p_approve")
     ELSE Fail("expect")

\* lines 208-213: Auth.approveDeployment with the leaf after the proposal leaf.
ApproveSubmit ==
  /\ pc = "p_approve"
  /\ UNCHANGED <<leaves, sigVars, propVars, treeVars, sampleVars, authState>>
  /\ LET approveDeploymentLeaf ==
           FindProposalRequestLeaf(ApproveDeploymentLeafIndex(ChainId), ChainId)
     IN /\ Submits(approveDeploymentLeaf.index)
        /\ IF ApproveAccepts(ChainId, Root, approveDeploymentLeaf, OwnerSignatures)
           THEN ApplyApprove(ChainId, Root, approveDeploymentLeaf) /\ Goto("p_check2")
           ELSE UNCHANGED chainVars /\ Fail("revert")

\* lines 231-234: the active deployment is the bundle's, the status COMPLETED.
ApproveCheck ==
  /\ pc = "p_check2"
  /\ authState' = authStates[ChainId][Root]
  /\ UNCHANGED <<leaves, sigVars, propVars, treeVars, sampleVars, chainVars, submitted>>
  /\ IF /\ activeDeploymentId[ChainId] = GetDeploymentId(ChainId)
        /\ authState'.status = COMPLETED
     THEN Goto("p_claim")
     ELSE Fail("expect")

\* line 240: Manager.claimDeployment.
ClaimDeployment ==
  /\ pc = "p_claim"
  /\ UNCHANGED <<leaves, sigVars, propVars, treeVars, sampleVars, authState, submitted>>
  /\ IF ClaimAccepts(ChainId)
     THEN ApplyClaim(ChainId) /\ Goto("p_exec")
     ELSE UNCHANGED chainVars /\ Fail("revert")

\* What the executor reports once no leaf is left to submit.
ExecutorReport(c) == deployments[c].status = "COMPLETED"

\* lines 241-247: executeDeployment (specification 4.6): the next EXECUTE leaf
\* after the chain's reported count, until none is left (the final status is
\* reported) or one fails (no success, submission halts).  A leaf fails when
\* the chain's guard rejects it, and it can fail when the guard would pass:
\* its action reverts or does not fit the gas limit.
ExecuteDeployment ==
  /\ pc = "p_exec"
  /\ UNCHANGED <<leaves, sigVars, propVars, treeVars, sampleVars, authState, entry, net, failure>>
  /\ LET st == authStates[ChainId][Root]
         leaf == FindProposalRequestLeaf(st.leafsExecuted, ChainId)
     IN IF st.leafsExecuted >= st.numLeafs
        THEN /\ success' = ExecutorReport(ChainId)
             /\ pc' = "p_check3"
             /\ UNCHANGED <<chainVars, submitted>>
        ELSE /\ Submits(leaf.index)
             /\ \/ /\ ExecuteAccepts(ChainId, Root, leaf)
                   /\ ApplyExecute(ChainId, Root, leaf)
                   /\ UNCHANGED <<pc, success>>
                \/ /\ success' = FALSE
                   /\ pc' = "p_check3"
                   /\ UNCHANGED chainVars

\* Variant of ExecuteCheck: the run goes on whatever the executor reported.
ExecuteCheckIgnoringSuccess ==
  /\ pc = "p_check3"
  /\ UNCHANGED <<leaves, sigVars, propVars, treeVars, sampleVars, chainVars, authState, submitted>>
  /\ pc' = IF net < Len(NetworksToAdd) THEN "p_read" ELSE "done"
  /\ net' = IF net < Len(NetworksToAdd) THEN net + 1 ELSE net
  /\ success' = FALSE
  /\ UNCHANGED <<entry, failure>>

\* lines 249-253: success and a COMPLETED deployment, then the next network.
ExecuteCheck ==
  /\ pc = "p_check3"
  /\ UNCHANGED <<leaves, sigVars, propVars, treeVars, sampleVars, chainVars, authState, submitted>>
  /\ IF success /\ deployments[ChainId].status = "COMPLETED"
     THEN /\ pc' = IF net < Len(NetworksToAdd) THEN "p_read" ELSE "done"
          /\ net' = IF net < Len(NetworksToAdd) THEN net + 1 ELSE net
          /\ success' = FALSE
          /\ UNCHANGED <<entry, failure>>
     ELSE Fail("expect")

\* Every step of a run is a call to a chain's provider, which may fail.
ProviderFails ==
  /\ pc \notin {"done", "failed"}
  /\ Fail("provider")
  /\ UNCHANGED <<leaves, sigVars, propVars, treeVars, sampleVars, chainVars, authState, submitted>>

\* The helper is called again after a run has ended.
Rerun ==
  /\ pc \in {"done", "failed"}
  /\ entry' \in {"setupThenProposeThenApproveDeploymentThenExecute",
                 "proposeThenApproveDeploymentThenExecute"}
  /\ pc' = IF entry' = "setupThenProposeThenApproveDeploymentThenExecute"
           THEN "s_read" ELSE "p_read"
  /\ net' = 1
  /\ authState' = EmptyAuthState
  /\ success' = FALSE
  /\ submitted' = NoneSubmitted
  /\ failure' = NoFailure
  /\ UNCHANGED <<leaves, sigVars, propVars, treeVars, sampleVars, chainVars>>

\* ------------------------------------------------------------------ others
\* Signature sets another relayer may hand in: the owners' and the proposer's
\* as collected, too few owners, and the owners' in descending order.
OtherSignatureSets(rt) ==
  { GetSignatures(OwnerPrivateKeys, rt, OwnerThreshold),
    GetSignatures(<<ProposerPrivateKey>>, rt, 1),
    GetSignatures(OwnerPrivateKeys, rt, OwnerThreshold - 1),
    [i \in 1..OwnerThreshold |->
       GetSignatures(OwnerPrivateKeys, rt, OwnerThreshold)[OwnerThreshold + 1 - i]] }

\* The signatures the role of a call asks for, as getSignatures collects them.
CollectedSignatures(fn, rt) ==
  IF fn = "propose"
  THEN GetSignatures(<<ProposerPrivateKey>>, rt, 1)
  ELSE GetSignatures(OwnerPrivateKeys, rt, OwnerThreshold)

\* The calls anyone (another relayer, or the same helper entered a second time)
\* may make on a chain: any leaf of the chain, and any other leaf with the
\* chain's next index, under the tree's root with the collected signatures; the
\* chain's next leaf under another root, or with other signatures.
OtherCalls(c) ==
  LET own == {leaf \in leaves : leaf.chainId = c}
      nextOwn == {leaf \in own : leaf.index = authStates[c][Root].leafsExecuted}
      foreign == {leaf \in (leaves \cup {ForgedLeaf}) \ own :
                    leaf.index = authStates[c][Root].leafsExecuted}
      fns == {"setup", "propose", "approve", "execute"}
  IN {[fn |-> f, rt |-> Root, leaf |-> l, signatures |-> CollectedSignatures(f, Root)] :
        f \in fns, l \in own \cup foreign}
     \cup
     {[fn |-> f, rt |-> OtherRoot, leaf |-> l,
       signatures |-> CollectedSignatures(f, OtherRoot)] : f \in fns, l \in nextOwn}
     \cup
     {[fn |-> f, rt |-> Root, leaf |-> l, signatures |-> sigs] :
        f \in fns \ {"execute"}, l \in nextOwn, sigs \in OtherSignatureSets(Root)}

\* The chain accepts a call or reverts it; a reverted call changes nothing (a
\* stuttering step).
OtherSetup(c, call) ==
  /\ call.fn = "setup"
  /\ SetupAccepts(c, call.rt, call.leaf, call.signatures)
  /\ ApplySetup(c, call.rt, call.leaf)
  /\ UNCHANGED <<leaves, sigVars, propVars, treeVars, sampleVars, runVars>>

OtherPropose(c, call) ==
  /\ call.fn = "propose"
  /\ ProposeAccepts(c, call.rt, call.leaf, call.signatures)
  /\ ApplyPropose(c, call.rt, call.leaf)
  /\ UNCHANGED <<leaves, sigVars, propVars, treeVars, sampleVars, runVars>>

OtherApprove(c, call) ==
  /\ call.fn = "approve"
  /\ ApproveAccepts(c, call.rt, call.leaf, call.signatures)
  /\ ApplyApprove(c, call.rt, call.leaf)
  /\ UNCHANGED <<leaves, sigVars, propVars, treeVars, sampleVars, runVars>>

OtherExecute(c, call) ==
  /\ call.fn = "execute"
  /\ ExecuteAccepts(c, call.rt, call.leaf)
  /\ ApplyExecute(c, call.rt, call.leaf)
  /\ UNCHANGED <<leaves, sigVars, propVars, treeVars, sampleVars, runVars>>

OtherClaim(c) ==
  /\ ClaimAccepts(c)
  /\ ApplyClaim(c)
  /\ UNCHANGED <<leaves, sigVars, propVars, treeVars, sampleVars, runVars>>

Others ==
  \E c \in Chains :
    \/ \E call \in OtherCalls(c) :
         \/ OtherSetup(c, call)
         \/ OtherPropose(c, call)
         \/ OtherApprove(c, call)
         \/ OtherExecute(c, call)
    \/ OtherClaim(c)

Run ==
  \/ SetupRead \/ SetupSubmit \/ SetupCheck
  \/ ProposeRead \/ ProposeSubmit \/ ProposeCheck
  \/ ApproveSubmit \/ ApproveCheck
  \/ ClaimDeployment \/ ExecuteDeployment \/ ExecuteCheck
  \/ ProviderFails \/ Rerun

Next == Run \/ Others

Spec == Init /\ [][Next]_vars

\* ------------------------------------------------------------------ getSignatures
\* getSignatures on its own: any list of at most MaxCandidates keys out of
\* NumKeys, any threshold up to one more than the list is long.
Keys == 1..NumKeys

CandidateLists == UNION {[1..n -> Keys] : n \in 0..MaxCandidates}

InitSig ==
  /\ leaves = MakeLeaves([c \in Chains |-> FALSE])
  /\ authStates = [c \in Chains |-> [rt \in Roots |-> EmptyAuthState]]
  /\ proposerRole = [c \in Chains |-> TRUE]
  /\ activeDeploymentId = [c \in Chains |-> ZeroHash]
  /\ deployments = [c \in Chains |-> [status |-> "EMPTY", claimed |-> FALSE]]
  /\ accepted = [c \in Chains |-> <<>>]
  /\ entry = "proposeThenApproveDeploymentThenExecute"
  /\ pc = "p_read"
  /\ net = 1
  /\ authState = EmptyAuthState
  /\ success = FALSE
  /\ submitted = NoneSubmitted
  /\ failure = NoFailure
  /\ candidates \in CandidateLists
  /\ sigKeys = candidates
  /\ sigThreshold \in 0..(Len(candidates) + 1)
  /\ sigReturned = <<>>
  /\ sigPc = "idle"
  /\ ProposeNotCalled
  /\ TreeNotBuilt
  /\ SampleNotCalled

\* lines 338-367: the call sorts the array it was given in place and returns
\* the signatures collected.
GetSignaturesCall ==
  /\ sigPc = "idle"
  /\ sigKeys' = SortedOwnerPrivateKeys(sigKeys)
  /\ sigReturned' = GetSignatures(sigKeys, Root, sigThreshold)
  /\ sigPc' = "returned"
  /\ UNCHANGED <<leaves, chainVars, runVars, propVars, treeVars, sampleVars, candidates, sigThreshold>>

\* lines 147, 189, 290: the caller expects threshold signatures; a failed
\* expectation throws before the signatures are used.
ExpectLength ==
  /\ sigPc = "returned"
  /\ sigPc' = IF LengthAsExpected(sigReturned, sigThreshold) THEN "used" ELSE "thrown"
  /\ UNCHANGED <<leaves, chainVars, runVars, propVars, treeVars, sampleVars, candidates, sigKeys,
                 sigThreshold, sigReturned>>

NextSig == GetSignaturesCall \/ ExpectLength

SpecSig == InitSig /\ [][NextSig]_vars

\* ------------------------------------------------------------------ propose
\* The fields of a chain's config that propose compares across chains.
ConfigFields == {"newConfig", "safeAddress", "moduleAddress", "safeInitData"}

\* Chain ids are decimal strings in a ParsedConfig, numbers in a
\* ProposalRequest and bigints in a leaf.
ChainIdString(i) == <<"chainId", i>>
Number(chainIdString) == chainIdString[2]
BigInt(chainIdString) == chainIdString[2]

\* What the collection script yields for the i-th network: numActions actions
\* and the config, which is the common one (1) except in the field, if any,
\* where the network deviates (2).
Collected(i, numActions, field) ==
  [chainId |-> ChainIdString(i),
   actionInputs |-> [k \in 1..numActions |-> k],
   newConfig |-> IF field = "newConfig" THEN 2 ELSE 1,
   safeAddress |-> IF field = "safeAddress" THEN 2 ELSE 1,
   moduleAddress |-> IF field = "moduleAddress" THEN 2 ELSE 1,
   safeInitData |-> IF field = "safeInitData" THEN 2 ELSE 1,
   isExecuting |-> FALSE]

\* The collections of a run: up to MaxNetworks networks (none configured
\* included), each with up to MaxActions actions (none included), all with
\* the common config or one of them deviating from it in one field.
CollectedInputs ==
  UNION {{[i \in 1..n |->
             Collected(i, numActions[i], IF i = deviating THEN field ELSE "none")] :
            numActions \in [1..n -> 0..MaxActions],
            deviating \in 0..n,
            field \in ConfigFields} : n \in 0..MaxNetworks}

\* lines 165-178: the deployment info the script of a network writes, ABI
\* encoded in the file and decoded after the script.
DeploymentInfo(collectedItem) ==
  [chainId |-> collectedItem.chainId,
   newConfig |-> collectedItem.newConfig,
   safeAddress |-> collectedItem.safeAddress,
   moduleAddress |-> collectedItem.moduleAddress,
   safeInitData |-> collectedItem.safeInitData,
   isExecuting |-> collectedItem.isExecuting]

AbiEncode(deploymentInfo) == <<"abi", deploymentInfo>>
AbiDecode(abiEncodedDeploymentInfo) == abiEncodedDeploymentInfo[2]

\* The file at deploymentInfoPath as the script of network i writes it, and as
\* an earlier run of another project (config 0) left it; writtenFor names the
\* network whose script wrote the file (history), 0 for an earlier run.
WrittenFile(i, collectedItem) ==
  [exists |-> TRUE, writtenFor |-> i,
   content |-> AbiEncode(DeploymentInfo(collectedItem))]

StaleFile ==
  [exists |-> TRUE, writtenFor |-> 0,
   content |-> AbiEncode([chainId |-> ChainIdString(1), newConfig |-> 0,
                          safeAddress |-> 0, moduleAddress |-> 0,
                          safeInitData |-> 0, isExecuting |-> FALSE])]

\* Variant of RemoveDeploymentInfo: the file is left in place.
KeepDeploymentInfo(file) == file

\* lines 120-122: if (existsSync(deploymentInfoPath)) unlinkSync(...).
RemoveDeploymentInfo(file) == IF file.exists THEN NoFile ELSE file

\* A call to a collaborator, with the chain id or the config id it is about.
Call(fn, arg) == [fn |-> fn, arg |-> arg]

\* The ids storeCanonicalConfig may return; compilerConfigId: undefined is 0.
ConfigIds == {1, 2}
UndefinedId == 0

\* lines 203-205.
IsEmpty(coll) ==
  \/ Len(coll) = 0
  \/ \A i \in 1..Len(coll) : Len(coll[i].actionInputs) = 0

\* makeParsedConfig(deploymentInfo, actionInputs, ...), lines 243-252: the
\* chain's config and its actions.
MakeParsedConfig(collectedItem) ==
  [chainId |-> collectedItem.deploymentInfo.chainId,
   actionInputs |-> collectedItem.actionInputs,
   newConfig |-> collectedItem.deploymentInfo.newConfig,
   safeAddress |-> collectedItem.deploymentInfo.safeAddress,
   moduleAddress |-> collectedItem.deploymentInfo.moduleAddress,
   safeInitData |-> collectedItem.deploymentInfo.safeInitData,
   isExecuting |-> collectedItem.deploymentInfo.isExecuting]

\* Variant of BuildCalls: gas is estimated whatever was collected.
BuildCallsAlwaysEstimating(coll, recompile) ==
  <<Call("getSphinxLeafGasEstimates", 0)>>
  \o (IF IsEmpty(coll) THEN <<>>
      ELSE (IF recompile THEN <<Call("compile", 0)>> ELSE <<>>)
           \o <<Call("getConfigArtifacts", 0)>>)

\* The collaborators buildParsedConfigArray calls once the transactions are
\* collected, lines 206-241: none when isEmpty.
BuildCalls(coll, recompile) ==
  IF IsEmpty(coll) THEN <<>>
  ELSE <<Call("getSphinxLeafGasEstimates", 0)>>
       \o (IF recompile THEN <<Call("compile", 0)>> ELSE <<>>)
       \o <<Call("getConfigArtifacts", 0)>>

\* lines 243-252.
BuildParsedConfigArray(coll) ==
  IF IsEmpty(coll) THEN <<>>
  ELSE [i \in 1..Len(coll) |-> MakeParsedConfig(coll[i])]

\* The first network of a proposal is the one whose chain still needs its
\* SETUP leaf (the scenario of specification 8).
SetupRequired(i) == i = 1

\* makeSphinxMerkleTree(makeDeploymentData(parsedConfigArray)): the leaves
\* LeafBuilder emits for every chain with actions, under one root.
MakeSphinxMerkleTree(configs) ==
  LET treeLeaves ==
        UNION {LeafBuilder(BigInt(configs[i].chainId), SetupRequired(i),
                           Len(configs[i].actionInputs)) :
                 i \in {j \in 1..Len(configs) : Len(configs[j].actionInputs) > 0}}
  IN [root |-> <<"root", treeLeaves>>, leavesWithProofs |-> treeLeaves]

\* line 347 and line 403.
HasActions(parsedConfig) == Len(parsedConfig.actionInputs) > 0

\* lines 346-355: one estimate per chain with actions.
GasEstimateCalls(configs) ==
  LET withActions == SelectSeq(configs, HasActions)
  IN [i \in 1..Len(withActions) |->
        Call("getNetworkGasEstimate", Number(withActions[i].chainId))]

\* The promises of lines 346-354, one per chain with actions in the order of
\* parsedConfigArray, each pending; settledAs is the place of a promise in the
\* order of completion (0 while pending).
GasEstimatesPromises(configs) ==
  LET withActions == SelectSeq(configs, HasActions)
  IN [i \in 1..Len(withActions) |->
        [chainId |-> Number(withActions[i].chainId), state |-> "pending",
         settledAs |-> 0]]

IsSettled(promise) == promise.state # "pending"

\* What getNetworkGasEstimate resolves to for a chain.
NetworkGasEstimate(chainId) ==
  [chainId |-> chainId, estimatedGas |-> <<"gas", chainId>>]

\* Variant of PromiseAll: the values in the order the promises settled.
PromiseAllAsSettled(promises) ==
  [k \in 1..Len(promises) |->
     NetworkGasEstimate(
       promises[CHOOSE i \in 1..Len(promises) : promises[i].settledAs = k].chainId)]

\* Promise.all of resolved promises, line 355: their values in the order of
\* the promises.
PromiseAll(promises) ==
  [i \in 1..Len(promises) |-> NetworkGasEstimate(promises[i].chainId)]

\* lines 373-380.
ShouldBeEqual(configs) ==
  [i \in 1..Len(configs) |->
     [newConfig |-> configs[i].newConfig,
      safeAddress |-> configs[i].safeAddress,
      moduleAddress |-> configs[i].moduleAddress,
      safeInitData |-> configs[i].safeInitData]]

\* elementsEqual: every element equals the first.
ElementsEqual(elements) ==
  \A i \in 1..Len(elements) : elements[i] = elements[1]

\* getProjectDeploymentForChain, lines 476-504.
NoDeployment == [undefined |-> TRUE]
MultipleApprovalLeaves == [thrown |-> TRUE]

\* Variant of GetProjectDeploymentForChain: each chain gets an id of its own.
GetProjectDeploymentWithOwnId(tree, parsedConfig) ==
  [chainId |-> Number(parsedConfig.chainId),
   deploymentId |-> <<"deployment", parsedConfig.chainId>>,
   name |-> parsedConfig.newConfig,
   isExecuting |-> parsedConfig.isExecuting]

GetProjectDeploymentForChain(tree, parsedConfig) ==
  LET approvalLeaves ==
        {l \in tree.leavesWithProofs :
           l.leafType = "approve" /\ l.chainId = BigInt(parsedConfig.chainId)}
  IN IF Cardinality(approvalLeaves) = 0 THEN NoDeployment
     ELSE IF Cardinality(approvalLeaves) > 1 THEN MultipleApprovalLeaves
     ELSE [chainId |-> Number(parsedConfig.chainId),
           deploymentId |-> tree.root,
           name |-> parsedConfig.newConfig,
           isExecuting |-> parsedConfig.isExecuting]

\* lines 393-420: the loop over parsedConfigArray.
IsDeployment(projectDeployment) == projectDeployment # NoDeployment

ProjectDeployments(tree, configs) ==
  LET withActions == SelectSeq(configs, HasActions)
  IN SelectSeq([i \in 1..Len(withActions) |->
                  GetProjectDeploymentForChain(tree, withActions[i])],
               IsDeployment)

\* Variant of ChainStatus: only the actions are counted.
ChainStatusCountingActionsOnly(configs) ==
  LET withActions == SelectSeq(configs, HasActions)
  IN [i \in 1..Len(withActions) |->
        [chainId |-> Number(withActions[i].chainId),
         numLeaves |-> Len(withActions[i].actionInputs)]]

\* Variant of ChainStatus: the chains without actions are listed too.
ChainStatusOfAllChains(configs) ==
  [i \in 1..Len(configs) |->
     [chainId |-> Number(configs[i].chainId),
      numLeaves |-> Len(configs[i].actionInputs) + 1]]

ChainStatus(configs) ==
  LET withActions == SelectSeq(configs, HasActions)
  IN [i \in 1..Len(withActions) |->
        [chainId |-> Number(withActions[i].chainId),
         numLeaves |-> Len(withActions[i].actionInputs) + 1]]

ChainIdsOf(configs) ==
  LET withActions == SelectSeq(configs, HasActions)
  IN [i \in 1..Len(withActions) |-> Number(withActions[i].chainId)]

\* lines 390-391 and 422-442: the fields of newConfig (orgId, projectName,
\* owners, threshold, saltNonce) are those of the first chain's config.
MakeProposalRequest(tree, configs, estimates) ==
  [orgId |-> configs[1].newConfig,
   chainIds |-> ChainIdsOf(configs),
   deploymentName |-> configs[1].newConfig,
   owners |-> configs[1].newConfig,
   threshold |-> configs[1].newConfig,
   safeInitSaltNonce |-> configs[1].newConfig,
   diff |-> <<"preview", configs>>,
   safeAddress |-> configs[1].safeAddress,
   moduleAddress |-> configs[1].moduleAddress,
   safeInitData |-> configs[1].safeInitData,
   projectDeployments |-> ProjectDeployments(tree, configs),
   gasEstimates |-> estimates,
   compilerConfigId |-> UndefinedId,
   tree |-> [root |-> tree.root, chainStatus |-> ChainStatus(configs)]]

\* lines 444-448: getParsedConfigWithCompilerInputs, JSON.stringify.
CanonicalConfigData(configs) == <<"json", configs>>

\* return {} (line 330) and the return of lines 467-473.
EmptyResult ==
  [proposalRequest |-> NoRequest, canonicalConfigData |-> <<>>,
   parsedConfigArray |-> <<>>, merkleTree |-> NoTree]

Result ==
  [proposalRequest |-> proposalRequest,
   canonicalConfigData |-> CanonicalConfigData(parsedConfigArray),
   parsedConfigArray |-> parsedConfigArray,
   merkleTree |-> merkleTree]

\* One propose run: what the script collects and the arguments.
InitPropose ==
  /\ leaves = MakeLeaves([c \in Chains |-> FALSE])
  /\ authStates = [c \in Chains |-> [rt \in Roots |-> EmptyAuthState]]
  /\ proposerRole = [c \in Chains |-> TRUE]
  /\ activeDeploymentId = [c \in Chains |-> ZeroHash]
  /\ deployments = [c \in Chains |-> [status |-> "EMPTY", claimed |-> FALSE]]
  /\ accepted = [c \in Chains |-> <<>>]
  /\ entry = "proposeThenApproveDeploymentThenExecute"
  /\ pc = "p_read"
  /\ net = 1
  /\ authState = EmptyAuthState
  /\ success = FALSE
  /\ submitted = NoneSubmitted
  /\ failure = NoFailure
  /\ candidates = OwnerPrivateKeys
  /\ sigKeys = OwnerPrivateKeys
  /\ sigThreshold = OwnerThreshold
  /\ sigReturned = <<>>
  /\ sigPc = "idle"
  /\ collected \in CollectedInputs
  /\ isDryRun \in BOOLEAN
  /\ confirm \in BOOLEAN
  /\ forceRecompile \in BOOLEAN
  /\ silent \in BOOLEAN
  /\ deploymentInfoFile \in {NoFile, StaleFile}
  /\ networkName = 0
  /\ pushed = <<>>
  /\ gasEstimatesPromises = <<>>
  /\ ppc = "start"
  /\ calls = <<>>
  /\ isEmpty = FALSE
  /\ parsedConfigArray = <<>>
  /\ merkleTree = NoTree
  /\ gasEstimates = <<>>
  /\ proposalRequest = NoRequest
  /\ constructed = NoRequest
  /\ returned = NotReturned
  /\ TreeNotBuilt
  /\ SampleNotCalled

\* The error of a throw or of process.exit ends the run.
Throws ==
  /\ ppc' = "thrown"
  /\ UNCHANGED <<isEmpty, parsedConfigArray, merkleTree, gasEstimates,
                 proposalRequest, constructed, returned>>

otherVars == <<leaves, chainVars, runVars, sigVars, treeVars, sampleVars>>
argVars == <<collected, isDryRun, confirm, forceRecompile, silent>>
loopVars == <<deploymentInfoFile, networkName, pushed>>

\* process.exit(1), lines 283, 111 and 162.
Exits ==
  /\ ppc' = "exited"
  /\ UNCHANGED <<isEmpty, parsedConfigArray, merkleTree, gasEstimates,
                 proposalRequest, constructed, returned>>

\* lines 281-285: without an API key the process exits; otherwise
\* buildParsedConfigArray starts on the first network.
ProposeCheckApiKey ==
  /\ ppc = "start"
  /\ UNCHANGED <<otherVars, argVars, calls, deploymentInfoFile, pushed,
                 gasEstimatesPromises>>
  /\ \/ /\ Exits
        /\ UNCHANGED networkName
     \/ /\ ppc' = "collect"
        /\ networkName' = 1
        /\ UNCHANGED <<isEmpty, parsedConfigArray, merkleTree, gasEstimates,
                       proposalRequest, constructed, returned>>

\* lines 104-122, one network of the loop: a missing RPC endpoint exits,
\* ensureSphinxAndGnosisSafeDeployed may throw, and the deployment info file is
\* removed if it exists.
CollectRemoveDeploymentInfo ==
  /\ ppc = "collect"
  /\ networkName <= Len(collected)
  /\ UNCHANGED <<otherVars, argVars, calls, networkName, pushed, gasEstimatesPromises>>
  /\ \/ /\ Exits
        /\ UNCHANGED deploymentInfoFile
     \/ /\ Throws
        /\ UNCHANGED deploymentInfoFile
     \/ /\ deploymentInfoFile' = RemoveDeploymentInfo(deploymentInfoFile)
        /\ ppc' = "script"
        /\ UNCHANGED <<isEmpty, parsedConfigArray, merkleTree, gasEstimates,
                       proposalRequest, constructed, returned>>

\* lines 124-201: the forge script runs (the call is recorded with its exit
\* code) and may or may not write the file; a non-zero exit code exits,
\* readFileSync throws when there is no file, and
\* otherwise the decoded deployment info is pushed with the actions read from
\* the dry run.
CollectForgeScript ==
  /\ ppc = "script"
  /\ UNCHANGED <<otherVars, argVars, gasEstimatesPromises>>
  /\ \E code \in {0, 1}, wrote \in BOOLEAN :
       /\ calls' = Append(calls, Call("forge script", code))
       /\ deploymentInfoFile' =
            IF wrote THEN WrittenFile(networkName, collected[networkName])
            ELSE deploymentInfoFile
       /\ IF code # 0
          THEN /\ Exits
               /\ UNCHANGED <<networkName, pushed>>
          ELSE IF ~deploymentInfoFile'.exists
          THEN /\ Throws
               /\ UNCHANGED <<networkName, pushed>>
          ELSE /\ pushed' = Append(pushed,
                                   [deploymentInfo |-> AbiDecode(deploymentInfoFile'.content),
                                    actionInputs |-> collected[networkName].actionInputs,
                                    writtenFor |-> deploymentInfoFile'.writtenFor])
               /\ networkName' = networkName + 1
               /\ ppc' = "collect"
               /\ UNCHANGED <<isEmpty, parsedConfigArray, merkleTree, gasEstimates,
                              proposalRequest, constructed, returned>>

\* lines 203-259, after the loop: unless nothing was collected gas is
\* estimated, the contracts recompiled on request, the artifacts loaded and
\* the configs parsed.
ProposeBuildParsedConfigArray ==
  /\ ppc = "collect"
  /\ networkName > Len(collected)
  /\ UNCHANGED <<otherVars, argVars, loopVars, gasEstimatesPromises>>
  /\ isEmpty' = IsEmpty(pushed)
  /\ calls' = calls \o BuildCalls(pushed, forceRecompile)
  /\ parsedConfigArray' = BuildParsedConfigArray(pushed)
  /\ ppc' = "built"
  /\ UNCHANGED <<merkleTree, gasEstimates, proposalRequest, constructed, returned>>

\* lines 326-343: nothing to execute returns {}; otherwise the tree is built.
ProposeMakeMerkleTree ==
  /\ ppc = "built"
  /\ UNCHANGED <<otherVars, argVars, loopVars, gasEstimatesPromises, isEmpty, parsedConfigArray, gasEstimates,
                 proposalRequest, constructed>>
  /\ IF isEmpty
     THEN /\ returned' = EmptyResult
          /\ ppc' = "returned"
          /\ UNCHANGED <<calls, merkleTree>>
     ELSE /\ merkleTree' = MakeSphinxMerkleTree(parsedConfigArray)
          /\ calls' = Append(calls, Call("makeSphinxMerkleTree", 0))
          /\ ppc' = "simulate"
          /\ UNCHANGED returned

\* lines 346-354: getNetworkGasEstimate is called for every chain with
\* actions, in the order of parsedConfigArray, without awaiting any of them.
ProposeRequestGasEstimates ==
  /\ ppc = "simulate"
  /\ UNCHANGED <<otherVars, argVars, loopVars>>
  /\ calls' = calls \o GasEstimateCalls(parsedConfigArray)
  /\ gasEstimatesPromises' = GasEstimatesPromises(parsedConfigArray)
  /\ ppc' = "awaiting"
  /\ UNCHANGED <<isEmpty, parsedConfigArray, merkleTree, gasEstimates,
                 proposalRequest, constructed, returned>>

\* One of the pending estimates resolves or rejects, in any order.
EstimateSettles ==
  /\ ppc = "awaiting"
  /\ UNCHANGED <<otherVars, argVars, loopVars, calls, ppc, isEmpty, parsedConfigArray,
                 merkleTree, gasEstimates, proposalRequest, constructed, returned>>
  /\ \E i \in 1..Len(gasEstimatesPromises), outcome \in {"resolved", "rejected"} :
       /\ ~IsSettled(gasEstimatesPromises[i])
       /\ gasEstimatesPromises' =
            [gasEstimatesPromises EXCEPT
               ![i] = [chainId |-> gasEstimatesPromises[i].chainId,
                       state |-> outcome,
                       settledAs |->
                         Len(SelectSeq(gasEstimatesPromises, IsSettled)) + 1]]

\* line 355, await Promise.all(gasEstimatesPromises): it rejects as soon as
\* one of the promises has rejected and resolves once all have resolved.
ProposeAwaitGasEstimates ==
  /\ ppc = "awaiting"
  /\ UNCHANGED <<otherVars, argVars, loopVars, calls, gasEstimatesPromises>>
  /\ IF \E i \in 1..Len(gasEstimatesPromises) :
          gasEstimatesPromises[i].state = "rejected"
     THEN Throws
     ELSE /\ \A i \in 1..Len(gasEstimatesPromises) :
               gasEstimatesPromises[i].state = "resolved"
          /\ gasEstimates' = PromiseAll(gasEstimatesPromises)
          /\ ppc' = "preview"
          /\ UNCHANGED <<isEmpty, parsedConfigArray, merkleTree, proposalRequest,
                         constructed, returned>>

\* Variant of ShowsPreview: the preview is logged whatever silent is.
ShowsPreviewAlways(quiet) == TRUE

\* line 359.
ShowsPreview(quiet) == ~quiet

\* lines 358-371: with confirm or isDryRun the preview is logged unless
\* silent; otherwise the user is asked, and may decline.
ProposePreview ==
  /\ ppc = "preview"
  /\ UNCHANGED <<otherVars, argVars, loopVars, gasEstimatesPromises>>
  /\ IF confirm \/ isDryRun
     THEN /\ calls' = IF ShowsPreview(silent)
                      THEN Append(calls, Call("console.log", 0))
                      ELSE calls
          /\ ppc' = "compare"
          /\ UNCHANGED <<isEmpty, parsedConfigArray, merkleTree, gasEstimates,
                         proposalRequest, constructed, returned>>
     ELSE /\ calls' = Append(calls, Call("prompt", 0))
          /\ \/ Throws
             \/ /\ ppc' = "compare"
                /\ UNCHANGED <<isEmpty, parsedConfigArray, merkleTree, gasEstimates,
                               proposalRequest, constructed, returned>>

\* Variant of ConfigsAgree: only the Safe and module addresses are compared.
ConfigsAgreeOnAddresses(configs) ==
  \A i \in 1..Len(configs) :
    /\ configs[i].safeAddress = configs[1].safeAddress
    /\ configs[i].moduleAddress = configs[1].moduleAddress

\* line 381.
ConfigsAgree(configs) == ElementsEqual(ShouldBeEqual(configs))

\* lines 373-386: the chains' configs must be equal.
ProposeCompare ==
  /\ ppc = "compare"
  /\ UNCHANGED <<otherVars, argVars, loopVars, gasEstimatesPromises, calls>>
  /\ IF ConfigsAgree(parsedConfigArray)
     THEN /\ ppc' = "construct"
          /\ UNCHANGED <<isEmpty, parsedConfigArray, merkleTree, gasEstimates,
                         proposalRequest, constructed, returned>>
     ELSE Throws

\* lines 390-448: the ProposalRequest is constructed; more than one approval
\* leaf for a chain throws.
ProposeConstruct ==
  /\ ppc = "construct"
  /\ UNCHANGED <<otherVars, argVars, loopVars, gasEstimatesPromises, calls>>
  /\ IF \E i \in 1..Len(parsedConfigArray) :
          /\ HasActions(parsedConfigArray[i])
          /\ GetProjectDeploymentForChain(merkleTree, parsedConfigArray[i])
               = MultipleApprovalLeaves
     THEN Throws
     ELSE /\ proposalRequest' =
               MakeProposalRequest(merkleTree, parsedConfigArray, gasEstimates)
          /\ constructed' = proposalRequest'
          /\ ppc' = "register"
          /\ UNCHANGED <<isEmpty, parsedConfigArray, merkleTree, gasEstimates, returned>>

\* Variant of SkipsRegistration: a dry run registers too.
SkipsRegistrationNever(dryRun) == FALSE

\* line 450.
SkipsRegistration(dryRun) == dryRun

\* Variant of AttachCompilerConfigId: the id is dropped.
AttachNoCompilerConfigId(request, compilerConfigId) == request

\* Variant of AttachCompilerConfigId: the request is rebuilt around the id and
\* loses its simulation results.
AttachToRebuiltRequest(request, compilerConfigId) ==
  [request EXCEPT !.compilerConfigId = compilerConfigId, !.gasEstimates = <<>>]

\* line 458.
AttachCompilerConfigId(request, compilerConfigId) ==
  [request EXCEPT !.compilerConfigId = compilerConfigId]

\* lines 450-451 and 467-473: a dry run returns without registering.
ProposeDryRunReturn ==
  /\ ppc = "register"
  /\ SkipsRegistration(isDryRun)
  /\ returned' = Result
  /\ ppc' = "returned"
  /\ UNCHANGED <<otherVars, argVars, loopVars, gasEstimatesPromises, calls, isEmpty, parsedConfigArray, merkleTree,
                 gasEstimates, proposalRequest, constructed>>

\* lines 453-458: the canonical config is stored and its id attached to the
\* request; the call may fail.
ProposeStoreCanonicalConfig ==
  /\ ppc = "register"
  /\ ~SkipsRegistration(isDryRun)
  /\ UNCHANGED <<otherVars, argVars, loopVars, gasEstimatesPromises>>
  /\ \/ /\ calls' = Append(calls, Call("storeCanonicalConfig", UndefinedId))
        /\ Throws
     \/ \E compilerConfigId \in ConfigIds :
          /\ calls' = Append(calls, Call("storeCanonicalConfig", compilerConfigId))
          /\ proposalRequest' = AttachCompilerConfigId(proposalRequest, compilerConfigId)
          /\ ppc' = "relay"
          /\ UNCHANGED <<isEmpty, parsedConfigArray, merkleTree, gasEstimates,
                         constructed, returned>>

\* lines 460-473: the request is relayed and the results returned; the call
\* may fail.
ProposeRelayProposal ==
  /\ ppc = "relay"
  /\ UNCHANGED <<otherVars, argVars, loopVars, gasEstimatesPromises>>
  /\ calls' = Append(calls, Call("relayProposal", proposalRequest.compilerConfigId))
  /\ \/ Throws
     \/ /\ returned' = Result
        /\ ppc' = "returned"
        /\ UNCHANGED <<isEmpty, parsedConfigArray, merkleTree, gasEstimates,
                       proposalRequest, constructed>>

NextPropose ==
  \/ ProposeCheckApiKey
  \/ CollectRemoveDeploymentInfo
  \/ CollectForgeScript
  \/ ProposeBuildParsedConfigArray
  \/ ProposeMakeMerkleTree
  \/ ProposeRequestGasEstimates
  \/ EstimateSettles
  \/ ProposeAwaitGasEstimates
  \/ ProposePreview
  \/ ProposeCompare
  \/ ProposeConstruct
  \/ ProposeDryRunReturn
  \/ ProposeStoreCanonicalConfig
  \/ ProposeRelayProposal

SpecPropose == InitPropose /\ [][NextPropose]_vars

\* ------------------------------------------------------------------ Merkle tree
\* MerkleTreeBuilder (specification 4.2).  Hashes are terms: two hashes are
\* equal exactly when they were made of the same parts.
LeafHash(leaf) ==
  <<"leaf", leaf.chainId, leaf.leafType, leaf.index, leaf.numLeafs>>

NodeHash(left, right) == <<"node", left, right>>

\* A hash that is no hash of the tree.
JunkHash == <<"junk">>

\* The canonical order of leaves: by chain, then by index.
LeafBefore(l, m) ==
  \/ l.chainId < m.chainId
  \/ l.chainId = m.chainId /\ l.index < m.index

RECURSIVE InsertLeaf(_, _)
InsertLeaf(sorted, leaf) ==
  IF sorted = <<>> THEN <<leaf>>
  ELSE IF LeafBefore(leaf, Head(sorted))
       THEN <<leaf>> \o sorted
       ELSE <<Head(sorted)>> \o InsertLeaf(Tail(sorted), leaf)

RECURSIVE SortLeaves(_)
SortLeaves(leafSeq) ==
  IF leafSeq = <<>> THEN <<>>
  ELSE InsertLeaf(SortLeaves(Tail(leafSeq)), Head(leafSeq))

\* Variant of CanonicalLeaves: the leaves are taken in the order supplied.
CanonicalLeavesAsSupplied(leafSeq) == leafSeq

\* The builder's input is a multiset: the order of supply is normalised away.
CanonicalLeaves(leafSeq) == SortLeaves(leafSeq)

HashLeaves(leafSeq) == [i \in 1..Len(leafSeq) |-> LeafHash(leafSeq[i])]

\* One level up: nodes are paired left to right, and the final node of a level
\* of odd cardinality is paired with itself.
NextLevel(level) ==
  [i \in 1..((Len(level) + 1) \div 2) |->
     NodeHash(level[2 * i - 1],
              IF 2 * i <= Len(level) THEN level[2 * i] ELSE level[2 * i - 1])]

RECURSIVE MerkleRoot(_)
MerkleRoot(level) ==
  IF Len(level) = 1 THEN level[1] ELSE MerkleRoot(NextLevel(level))

\* The position in its level of the sibling of the node at a position.
SiblingPosition(level, pos) ==
  IF pos % 2 = 0 THEN pos - 1
  ELSE IF pos + 1 <= Len(level) THEN pos + 1 ELSE pos

\* Variant of SiblingSide: every sibling is recorded as the right one.
SiblingSideAlwaysRight(pos) == "right"

\* The side the sibling is on.
SiblingSide(pos) == IF pos % 2 = 0 THEN "left" ELSE "right"

\* The proof of the node at a position: per level, the sibling's hash and side.
RECURSIVE MerkleProof(_, _)
MerkleProof(level, pos) ==
  IF Len(level) = 1 THEN <<>>
  ELSE <<[hash |-> level[SiblingPosition(level, pos)], position |-> SiblingSide(pos)]>>
       \o MerkleProof(NextLevel(level), (pos + 1) \div 2)

MakeMerkleTree(leafSeq) ==
  LET sorted == CanonicalLeaves(leafSeq)
      level == HashLeaves(sorted)
  IN [root |-> MerkleRoot(level),
      leavesWithProofs |->
        {[leaf |-> sorted[i], proof |-> MerkleProof(level, i)] : i \in 1..Len(sorted)}]

\* Verification: the root is recomputed from the leaf's hash and the proof.
RECURSIVE RecomputeRoot(_, _)
RecomputeRoot(hash, proof) ==
  IF proof = <<>> THEN hash
  ELSE RecomputeRoot(IF Head(proof).position = "left"
                     THEN NodeHash(Head(proof).hash, hash)
                     ELSE NodeHash(hash, Head(proof).hash),
                     Tail(proof))

VerifyMerkleProof(rt, leaf, proof) == RecomputeRoot(LeafHash(leaf), proof) = rt

\* ------------------------------------------------------------------ tree builder
\* The leaves of one chain as LeafBuilder emits them, in index order.
ChainLeafSeq(c, setupRequired, numActions) ==
  LET emitted == LeafBuilder(c, setupRequired, numActions)
  IN [i \in 1..Cardinality(emitted) |-> CHOOSE l \in emitted : l.index = i - 1]

\* The leaves of the chains up to c that have actions, chain after chain.
RECURSIVE LeafSeqUpTo(_, _, _)
LeafSeqUpTo(c, setupRequired, numActions) ==
  IF c = 0 THEN <<>>
  ELSE LeafSeqUpTo(c - 1, setupRequired, numActions)
       \o (IF numActions[c] > 0
           THEN ChainLeafSeq(c, setupRequired[c], numActions[c])
           ELSE <<>>)

\* What propose hands to the builder (lines 340-341): the leaves of up to
\* MaxNetworks chains, each with up to MaxActions actions and with or without
\* a SETUP leaf; at least one chain has actions.
TreeInputs ==
  {LeafSeqUpTo(MaxNetworks, setupRequired, numActions) :
     setupRequired \in [1..MaxNetworks -> BOOLEAN],
     numActions \in [1..MaxNetworks -> 0..MaxActions]} \ {<<>>}

Reversed(leafSeq) == [i \in 1..Len(leafSeq) |-> leafSeq[Len(leafSeq) + 1 - i]]

Swapped(leafSeq, i) ==
  [k \in 1..Len(leafSeq) |->
     IF k = i THEN leafSeq[i + 1] ELSE IF k = i + 1 THEN leafSeq[i] ELSE leafSeq[k]]

\* The same leaves supplied again: in the same order, in reverse, or with two
\* neighbours exchanged.
Resupplies(leafSeq) ==
  {leafSeq, Reversed(leafSeq)} \cup {Swapped(leafSeq, i) : i \in 1..(Len(leafSeq) - 1)}

OtherSide(position) == IF position = "left" THEN "right" ELSE "left"

\* What may be handed to the verifier for a recorded leaf of the tree: the leaf
\* with its recorded proof; another leaf (of the tree or not) with that proof;
\* the leaf with a proof in which one sibling hash is replaced (by a hash
\* outside the tree, or by the hash of the node the sibling is paired with);
\* the leaf with a proof in which the side of one sibling is flipped.
Presentations(tree, recorded) ==
  LET elements == 1..Len(recorded.proof)
      Paired(k) ==
        RecomputeRoot(LeafHash(recorded.leaf), SubSeq(recorded.proof, 1, k - 1))
      otherLeaves ==
        ({e.leaf : e \in tree.leavesWithProofs} \cup {ForgedLeaf}) \ {recorded.leaf}
      OtherHashes(k) == {JunkHash, Paired(k)} \ {recorded.proof[k].hash}
  IN {[leaf |-> recorded.leaf, proof |-> recorded.proof, recorded |-> recorded,
       changed |-> "nothing", at |-> 0]}
     \cup {[leaf |-> l, proof |-> recorded.proof, recorded |-> recorded,
            changed |-> "leaf", at |-> 0] : l \in otherLeaves}
     \cup UNION {{[leaf |-> recorded.leaf,
                   proof |-> [recorded.proof EXCEPT ![k].hash = h],
                   recorded |-> recorded,
                   changed |-> "hash", at |-> k] : h \in OtherHashes(k)} :
                 k \in elements}
     \cup {[leaf |-> recorded.leaf,
            proof |-> [recorded.proof EXCEPT ![k].position = OtherSide(@)],
            recorded |-> recorded,
            changed |-> "position", at |-> k] : k \in elements}

\* One use of the builder: the leaves supplied.
InitTree ==
  /\ leaves = MakeLeaves([c \in Chains |-> FALSE])
  /\ authStates = [c \in Chains |-> [rt \in Roots |-> EmptyAuthState]]
  /\ proposerRole = [c \in Chains |-> TRUE]
  /\ activeDeploymentId = [c \in Chains |-> ZeroHash]
  /\ deployments = [c \in Chains |-> [status |-> "EMPTY", claimed |-> FALSE]]
  /\ accepted = [c \in Chains |-> <<>>]
  /\ entry = "proposeThenApproveDeploymentThenExecute"
  /\ pc = "p_read"
  /\ net = 1
  /\ authState = EmptyAuthState
  /\ success = FALSE
  /\ submitted = NoneSubmitted
  /\ failure = NoFailure
  /\ candidates = OwnerPrivateKeys
  /\ sigKeys = OwnerPrivateKeys
  /\ sigThreshold = OwnerThreshold
  /\ sigReturned = <<>>
  /\ sigPc = "idle"
  /\ ProposeNotCalled
  /\ treeInput \in TreeInputs
  /\ firstTree = NoMerkleTree
  /\ secondInput = <<>>
  /\ secondTree = NoMerkleTree
  /\ presented = NothingPresented
  /\ verdict = FALSE
  /\ SampleNotCalled

nonTreeVars == <<leaves, chainVars, runVars, sigVars, propVars, sampleVars>>

\* makeSphinxMerkleTree, lines 340-341: the tree is built over the leaves.
BuildTree ==
  /\ firstTree = NoMerkleTree
  /\ firstTree' = MakeMerkleTree(treeInput)
  /\ UNCHANGED <<nonTreeVars, treeInput, secondInput, secondTree, presented, verdict>>

\* The tree is derived again from the same leaves, supplied in some order.
RebuildTree ==
  /\ firstTree # NoMerkleTree
  /\ secondTree = NoMerkleTree
  /\ presented = NothingPresented
  /\ \E resupplied \in Resupplies(treeInput) :
       /\ secondInput' = resupplied
       /\ secondTree' = MakeMerkleTree(resupplied)
  /\ UNCHANGED <<nonTreeVars, treeInput, firstTree, presented, verdict>>

\* A leaf and a proof are handed to the verifier with the root of the tree, as
\* in Auth.propose(root, leaf, signatures, siblings), helpers.ts 190-195.
PresentProof ==
  /\ firstTree # NoMerkleTree
  /\ secondTree = NoMerkleTree
  /\ presented = NothingPresented
  /\ \E recorded \in firstTree.leavesWithProofs :
       \E presentation \in Presentations(firstTree, recorded) :
         /\ presented' = presentation
         /\ verdict' = VerifyMerkleProof(firstTree.root, presentation.leaf,
                                         presentation.proof)
  /\ UNCHANGED <<nonTreeVars, treeInput, firstTree, secondInput, secondTree>>

NextTree == BuildTree \/ RebuildTree \/ PresentProof

SpecTree == InitTree /\ [][NextTree]_vars

\* ------------------------------------------------------------------ sample project
\* src/packages/plugins/src/sample-project/index.ts.  A path is the sequence
\* of its segments; the paths of the model are the directories the arguments
\* may name and the sample files in them.
DirPaths == {<<"a">>, <<"a", "b">>}

\* lines 24-33.
sampleContractFileName == "HelloSphinx.sol"
sampleConfigFileNameTypeScript == "HelloSphinx.config.ts"
sampleConfigNameJavaScript == "HelloSphinx.config.js"
foundryTestFileName == "HelloSphinx.t.sol"
foundryScriptFileName == "HelloSphinx.s.sol"
hhTestFileNameTypeScript == "HelloSphinx.spec.ts"
hhTestFileNameJavaScript == "HelloSphinx.test.js"

FileNames ==
  {sampleContractFileName, sampleConfigFileNameTypeScript, sampleConfigNameJavaScript,
   foundryTestFileName, foundryScriptFileName, hhTestFileNameTypeScript,
   hhTestFileNameJavaScript}

\* path.join(dir, name) and path.dirname(path).
PathJoin(dir, name) == Append(dir, name)
Dirname(path) == SubSeq(path, 1, Len(path) - 1)

Paths == DirPaths \cup {PathJoin(dir, name) : dir \in DirPaths, name \in FileNames}

\* What is at a path: nothing, a directory, or a file with its content.
Absent == [kind |-> "absent", content |-> <<>>]
Directory == [kind |-> "dir", content |-> <<>>]
File(content) == [kind |-> "file", content |-> content]

\* A file that was there before, with content of its own.
OldFile == File(<<"old">>)

\* scriptDirPath?: undefined.
NoPath == <<>>

SolcVersion == "0.8.15"

Integrations == {"hardhat", "foundry"}

\* The arguments of a call, lines 36-42.
SampleArgs ==
  [configDirPath : DirPaths, contractDirPath : DirPaths, testDirPath : DirPaths,
   isTypeScriptProject : BOOLEAN, solcVersion : {SolcVersion},
   integration : Integrations, scriptDirPath : DirPaths \cup {NoPath}]

\* lines 60-64, 78, 88-91, 114 and 124.
ConfigPath(args) ==
  PathJoin(args.configDirPath,
           IF args.isTypeScriptProject THEN sampleConfigFileNameTypeScript
           ELSE sampleConfigNameJavaScript)

ContractFilePath(args) == PathJoin(args.contractDirPath, sampleContractFileName)

HardhatTestFilePath(args) ==
  PathJoin(args.testDirPath,
           IF args.isTypeScriptProject THEN hhTestFileNameTypeScript
           ELSE hhTestFileNameJavaScript)

FoundryTestFilePath(args) == PathJoin(args.testDirPath, foundryTestFileName)

ScriptFilePath(args) == PathJoin(args.scriptDirPath, foundryScriptFileName)

\* The sample files as written, lines 67-72, 81, 94-99, 117-120 and 127-130.
ConfigFile(args) ==
  File(IF args.isTypeScriptProject THEN <<"sampleSphinxFileTypeScript">>
       ELSE <<"sampleSphinxFileJavaScript">>)

ContractFile(args) == File(<<"getSampleContractFile", args.solcVersion>>)

HardhatTestFile(args) ==
  File(IF args.isTypeScriptProject THEN <<"sampleTestFileTypeScript">>
       ELSE <<"sampleTestFileJavaScript">>)

FoundryTestFile(args) ==
  File(<<"getSampleFoundryTestFile", args.solcVersion, ConfigPath(args)>>)

FoundryDeployFile(args) ==
  File(<<"getSampleFoundryDeployFile", args.solcVersion, ConfigPath(args)>>)

\* fs.existsSync.
ExistsSync(fileSystem, path) == fileSystem[path].kind # "absent"

\* The directory a path lies in exists; the paths of one segment lie in the
\* working directory.
ParentIsDirectory(fileSystem, path) ==
  \/ Len(path) = 1
  \/ fileSystem[Dirname(path)].kind = "dir"

\* The state of a call: the file system and whether the call has thrown.
Running(fileSystem) == [fs |-> fileSystem, thrown |-> FALSE]
Thrown(fileSystem) == [fs |-> fileSystem, thrown |-> TRUE]

\* fs.mkdirSync (not recursive): throws if the path exists or its parent is
\* no directory.
MkdirSync(fileSystem, path) ==
  IF ExistsSync(fileSystem, path) \/ ~ParentIsDirectory(fileSystem, path)
  THEN Thrown(fileSystem)
  ELSE Running([fileSystem EXCEPT ![path] = Directory])

\* fs.writeFileSync: throws if the path is a directory or its parent is no
\* directory, and otherwise creates the file or replaces its content.
WriteFileSync(fileSystem, path, file) ==
  IF fileSystem[path].kind = "dir" \/ ~ParentIsDirectory(fileSystem, path)
  THEN Thrown(fileSystem)
  ELSE Running([fileSystem EXCEPT ![path] = file])

\* if (!fs.existsSync(dir)) { fs.mkdirSync(dir) }, lines 45-57 and 109-111; a
\* call that has thrown does nothing more.
MkdirIfMissing(call, path) ==
  IF call.thrown \/ ExistsSync(call.fs, path) THEN call
  ELSE MkdirSync(call.fs, path)

\* Variant of WriteIfMissing: the file is written whatever is at its path.
WriteWhateverExists(call, path, file) ==
  IF call.thrown THEN call
  ELSE WriteFileSync(call.fs, path, file)

\* if (!fs.existsSync(path)) { fs.writeFileSync(path, ...) }, lines 65-73,
\* 79-82, 92-100, 115-121 and 125-131.
WriteIfMissing(call, path, file) ==
  IF call.thrown \/ ExistsSync(call.fs, path) THEN call
  ELSE WriteFileSync(call.fs, path, file)

\* lines 86-100.
WriteHardhatFiles(call, args) ==
  WriteIfMissing(call, HardhatTestFilePath(args), HardhatTestFile(args))

\* lines 101-132.
WriteFoundryFiles(call, args) ==
  IF call.thrown THEN call
  ELSE IF args.scriptDirPath = NoPath THEN Thrown(call.fs)
  ELSE LET withScriptDir == MkdirIfMissing(call, args.scriptDirPath)
           withTest == WriteIfMissing(withScriptDir, FoundryTestFilePath(args),
                                      FoundryTestFile(args))
       IN WriteIfMissing(withTest, ScriptFilePath(args), FoundryDeployFile(args))

\* writeSampleProjectFiles, lines 35-133.
WriteSampleProjectFiles(fileSystem, args) ==
  LET withConfigDir == MkdirIfMissing(Running(fileSystem), args.configDirPath)
      withContractDir == MkdirIfMissing(withConfigDir, args.contractDirPath)
      withTestDir == MkdirIfMissing(withContractDir, args.testDirPath)
      withConfig == WriteIfMissing(withTestDir, ConfigPath(args), ConfigFile(args))
      withContract == WriteIfMissing(withConfig, ContractFilePath(args),
                                     ContractFile(args))
  IN IF args.integration = "hardhat" THEN WriteHardhatFiles(withContract, args)
     ELSE IF args.integration = "foundry" THEN WriteFoundryFiles(withContract, args)
     ELSE withContract

\* The paths a call with these arguments may write a sample file to.
SamplePaths(args) ==
  {ConfigPath(args), ContractFilePath(args)}
  \cup (IF args.integration = "hardhat" THEN {HardhatTestFilePath(args)}
        ELSE IF args.scriptDirPath = NoPath THEN {FoundryTestFilePath(args)}
        ELSE {FoundryTestFilePath(args), ScriptFilePath(args)})

\* In a file system everything lies in a directory.
WellFormed(fileSystem) ==
  \A path \in Paths :
    ExistsSync(fileSystem, path) => ParentIsDirectory(fileSystem, path)

\* The file systems a call may find: each directory path absent, a directory
\* or a file, and at each path of a sample file nothing, a file with content
\* of its own or a directory.
FileSystems(args) ==
  {fileSystem \in
     {[path \in Paths |->
         IF path \in DirPaths THEN dirs[path]
         ELSE IF path \in SamplePaths(args) THEN files[path]
         ELSE Absent] :
        dirs \in [DirPaths -> {Absent, Directory, OldFile}],
        files \in [SamplePaths(args) -> {Absent, Directory, OldFile}]} :
     WellFormed(fileSystem)}

\* One project: the arguments and the file system before the first call.
InitSample ==
  /\ leaves = MakeLeaves([c \in Chains |-> FALSE])
  /\ authStates = [c \in Chains |-> [rt \in Roots |-> EmptyAuthState]]
  /\ proposerRole = [c \in Chains |-> TRUE]
  /\ activeDeploymentId = [c \in Chains |-> ZeroHash]
  /\ deployments = [c \in Chains |-> [status |-> "EMPTY", claimed |-> FALSE]]
  /\ accepted = [c \in Chains |-> <<>>]
  /\ entry = "proposeThenApproveDeploymentThenExecute"
  /\ pc = "p_read"
  /\ net = 1
  /\ authState = EmptyAuthState
  /\ success = FALSE
  /\ submitted = NoneSubmitted
  /\ failure = NoFailure
  /\ candidates = OwnerPrivateKeys
  /\ sigKeys = OwnerPrivateKeys
  /\ sigThreshold = OwnerThreshold
  /\ sigReturned = <<>>
  /\ sigPc = "idle"
  /\ ProposeNotCalled
  /\ TreeNotBuilt
  /\ sampleArgs \in SampleArgs
  /\ fs \in FileSystems(sampleArgs)
  /\ sampleCalls = <<>>

nonSampleVars == <<leaves, chainVars, runVars, sigVars, propVars, treeVars>>

\* A call of writeSampleProjectFiles with the arguments.
CallWriteSampleProjectFiles ==
  LET call == WriteSampleProjectFiles(fs, sampleArgs)
  IN /\ fs' = call.fs
     /\ sampleCalls' = Append(sampleCalls, [before |-> fs, threw |-> call.thrown])
     /\ UNCHANGED <<nonSampleVars, sampleArgs>>

\* writeSampleProjectFiles is called for the first time.
WriteSampleProjectFilesFirst ==
  /\ Len(sampleCalls) = 0
  /\ CallWriteSampleProjectFiles

\* writeSampleProjectFiles is called again with the same arguments.
WriteSampleProjectFilesAgain ==
  /\ Len(sampleCalls) = 1
  /\ CallWriteSampleProjectFiles

NextSample ==
  \/ WriteSampleProjectFilesFirst
  \/ WriteSampleProjectFilesAgain

SpecSample == InitSample /\ [][NextSample]_vars

\* ------------------------------------------------------------------ claims
LeafTypesOf(leafSeq) == {leafSeq[i].leafType : i \in 1..Len(leafSeq)}

StrictlyIncreasing(indices) ==
  \A i \in 1..Len(indices), j \in 1..Len(indices) : i < j => indices[i] < indices[j]

\* One step of a status: along EMPTY -> SETUP -> PROPOSED -> COMPLETED, and
\* EMPTY -> PROPOSED only on a chain without a SETUP leaf.
ForwardStep(c, old, new) ==
  \/ new = old
  \/ old = EMPTY /\ new = SETUP
  \/ old = SETUP /\ new = PROPOSED
  \/ old = PROPOSED /\ new = COMPLETED
  \/ old = EMPTY /\ new = PROPOSED /\ ~ContainsSetupLeaf(c)

\* C1: on every chain and for every root, whatever calls are made (accepted or
\* reverted), the status of the AuthState only moves forward along
\* EMPTY -> SETUP -> PROPOSED -> COMPLETED (EMPTY -> PROPOSED on a chain without
\* a SETUP leaf); it never goes back and never leaves COMPLETED.
C1_StatusOnlyMovesForward ==
  [][\A c \in Chains, rt \in Roots :
       ForwardStep(c, authStates[c][rt].status, authStates'[c][rt].status)]_vars

\* Both paths were walked to the end, and a call of the run was reverted.
C1_Witness ==
  /\ \E c \in Chains :
       /\ ContainsSetupLeaf(c)
       /\ {"setup", "propose", "approve"} \subseteq LeafTypesOf(accepted[c])
       /\ authStates[c][Root].status = COMPLETED
  /\ \E c \in Chains :
       /\ ~ContainsSetupLeaf(c)
       /\ {"propose", "approve"} \subseteq LeafTypesOf(accepted[c])
       /\ authStates[c][Root].status = COMPLETED
  /\ failure.reason = "revert"

\* C2: in every reachable AuthState of every chain, leafsExecuted is at most
\* numLeafs, also right after the SETUP leaf and before PROPOSE.
C2_LeafsExecutedAtMostNumLeafs ==
  \A c \in Chains, rt \in Roots :
    authStates[c][rt].leafsExecuted <= authStates[c][rt].numLeafs

\* One chain is between SETUP and PROPOSE, another has executed all its leaves.
C2_Witness ==
  /\ \E c \in Chains :
       /\ authStates[c][Root].status = SETUP
       /\ authStates[c][Root].leafsExecuted = 1
  /\ \E c \in Chains :
       /\ authStates[c][Root].numLeafs > 0
       /\ authStates[c][Root].leafsExecuted = authStates[c][Root].numLeafs

\* C3: within one chain leaves go strictly in sequence, SETUP (if any) before
\* PROPOSE before APPROVE before the claim of the deployment and before every
\* EXECUTE leaf: the chain accepts its leaves in index order whoever hands them
\* in, a deployment is claimed only after its APPROVE leaf was accepted, and a
\* run hands in the leaves of a chain with strictly increasing indices and
\* claims only after it handed in the APPROVE leaf.
C3_LeavesInSequence ==
  /\ \A c \in Chains :
       /\ \A i \in 1..Len(accepted[c]) :
            accepted[c][i] = FindProposalRequestLeaf(i - 1, c)
       /\ \A i \in 1..Len(accepted[c]), j \in 1..Len(accepted[c]) :
            /\ accepted[c][i].leafType = "propose" /\ accepted[c][j].leafType = "setup"
                 => j < i
            /\ accepted[c][i].leafType = "approve" /\ accepted[c][j].leafType = "propose"
                 => j < i
            /\ accepted[c][i].leafType = "execute" /\ accepted[c][j].leafType = "approve"
                 => j < i
       /\ "execute" \in LeafTypesOf(accepted[c]) => "approve" \in LeafTypesOf(accepted[c])
       /\ "approve" \in LeafTypesOf(accepted[c]) => "propose" \in LeafTypesOf(accepted[c])
       /\ deployments[c].claimed => "approve" \in LeafTypesOf(accepted[c])
       /\ StrictlyIncreasing(submitted[c])
  /\ pc \in {"p_claim", "p_exec", "p_check3"} =>
       \E i \in 1..Len(submitted[ChainId]) :
         submitted[ChainId][i] = ProposalLeafIndex(ChainId) + 1

\* A run went through a chain with a SETUP leaf from setup to execution while
\* another caller got ahead of it on the other chain.
C3_Witness ==
  /\ pc = "p_check3"
  /\ ContainsSetupLeaf(ChainId)
  /\ Len(submitted[ChainId]) >= 4
  /\ \E c \in Chains : Len(accepted[c]) > Len(submitted[c]) /\ Len(submitted[c]) > 0

\* The index of the leaf a run hands in after the expectations at a position.
GuardedIndex(at, c) ==
  CASE at = "s_read" -> 0
    [] at = "p_read" -> ProposalLeafIndex(c)
    [] at = "p_check" -> ApproveDeploymentLeafIndex(c)

FirstReadFailed ==
  /\ pc = "failed"
  /\ failure.reason = "expect"
  /\ \/ failure.at = "s_read"
     \/ failure.at = "p_read" /\ entry = "proposeThenApproveDeploymentThenExecute"

SetupLoop == {"s_read", "s_setup", "s_check"}

Accepts(c, leafType) ==
  /\ Len(accepted'[c]) = Len(accepted[c]) + 1
  /\ accepted'[c][Len(accepted'[c])].leafType = leafType

\* C7: the SETUP leaf (index 0) handed in with the owners' signatures on a
\* chain whose AuthState is EMPTY with leafsExecuted = 0 and numLeafs = 0 is
\* accepted and leaves status SETUP, leafsExecuted = 1 and numLeafs = the number
\* of leaves of the tree with the chain's id.
C7_SetupFromEmpty ==
  [][/\ \A c \in Chains :
          (authStates[c][Root] = EmptyAuthState /\ Accepts(c, "setup")) =>
            authStates'[c][Root] =
              [status |-> SETUP, leafsExecuted |-> 1, numLeafs |-> ExpectedNumLeafs(c)]
     /\ ( /\ pc = "s_setup"
          /\ submitted' # submitted
          /\ authStates[ChainId][Root] = EmptyAuthState
          /\ FindProposalRequestLeaf(0, ChainId).leafType = "setup" ) =>
            /\ Accepts(ChainId, "setup")
            /\ pc' = "s_check"]_vars

\* The run has set up a chain of more than one chain's tree.
C7_Witness ==
  /\ pc = "s_check"
  /\ authStates[ChainId][Root].status = SETUP
  /\ authStates[ChainId][Root].leafsExecuted = 1
  /\ authStates[ChainId][Root].numLeafs = ExpectedNumLeafs(ChainId)
  /\ ExpectedNumLeafs(ChainId) < Cardinality(leaves)

\* C8: when the PROPOSE leaf is accepted the AuthState becomes PROPOSED with
\* numLeafs = the number of the chain's leaves and leafsExecuted = 2 with a
\* SETUP leaf and 1 without; the status before was SETUP exactly when the chain
\* has a SETUP leaf, and EMPTY otherwise.
C8_ProposeAccepted ==
  [][\A c \in Chains :
       Accepts(c, "propose") =>
         /\ authStates'[c][Root] =
              [status |-> PROPOSED,
               leafsExecuted |-> ExpectedLeafsExecuted(c),
               numLeafs |-> ExpectedNumLeafs(c)]
         /\ authStates[c][Root].status = ExpectedInitialStatus(c)
         /\ authStates[c][Root].status = SETUP <=> ContainsSetupLeaf(c)]_vars

\* PROPOSE was accepted on a chain with a SETUP leaf and on one without.
C8_Witness ==
  /\ \E c \in Chains :
       /\ ContainsSetupLeaf(c)
       /\ authStates[c][Root].status = PROPOSED
       /\ authStates[c][Root].leafsExecuted = 2
  /\ \E c \in Chains :
       /\ ~ContainsSetupLeaf(c)
       /\ authStates[c][Root].status = PROPOSED
       /\ authStates[c][Root].leafsExecuted = 1

\* C9: a chain has no active deployment as long as its APPROVE leaf is not
\* accepted; once it is accepted (from PROPOSED: it is the leaf after the
\* PROPOSE leaf) the status is COMPLETED and the active deployment is the
\* bundle's.
C9_ActiveDeploymentOnlyAfterApprove ==
  \A c \in Chains :
    IF "approve" \in LeafTypesOf(accepted[c])
    THEN /\ Len(accepted[c]) >= 2
         /\ accepted[c][ApproveDeploymentLeafIndex(c)].leafType = "propose"
         /\ accepted[c][ApproveDeploymentLeafIndex(c) + 1].leafType = "approve"
         /\ Len(accepted[c]) = ApproveDeploymentLeafIndex(c) + 1 =>
              /\ authStates[c][Root].status = COMPLETED
              /\ activeDeploymentId[c] = GetDeploymentId(c)
    ELSE activeDeploymentId[c] = ZeroHash

\* The run is right after an accepted approve; the other chain is PROPOSED and
\* has no active deployment.
C9_Witness ==
  /\ pc = "p_check2"
  /\ Len(accepted[ChainId]) = ApproveDeploymentLeafIndex(ChainId) + 1
  /\ activeDeploymentId[ChainId] = GetDeploymentId(ChainId)
  /\ \E c \in Chains :
       /\ authStates[c][Root].status = PROPOSED
       /\ activeDeploymentId[c] = ZeroHash

\* Number of times an address signs in a list of signatures, and owns a key in a
\* list of keys.
SignedBy(sigs, a) == Cardinality({i \in 1..Len(sigs) : sigs[i].signer = a})
KeysOf(keys, a) == Cardinality({i \in 1..Len(keys) : WalletAddress(keys[i]) = a})

\* The same keys in another order.
Reorderings(keys) ==
  {p \in [1..Len(keys) -> Keys] :
     \A k \in Keys : Cardinality({i \in 1..Len(p) : p[i] = k})
                   = Cardinality({i \in 1..Len(keys) : keys[i] = k})}

\* Exactly threshold signatures over the root, by the lowest addresses among the
\* keys, in ascending order of address, and the same for every order of the keys.
ThresholdLowestAscending(keys, n, sigs) ==
  /\ Len(sigs) = n
  /\ \A i \in 1..Len(sigs) : sigs[i].root = Root
  /\ \A i \in 1..(Len(sigs) - 1) : sigs[i].signer <= sigs[i + 1].signer
  /\ \A i \in 1..Len(sigs) :
       /\ SignedBy(sigs, sigs[i].signer) <= KeysOf(keys, sigs[i].signer)
       /\ \A j \in 1..Len(keys) :
            WalletAddress(keys[j]) < sigs[i].signer =>
              SignedBy(sigs, WalletAddress(keys[j])) = KeysOf(keys, WalletAddress(keys[j]))
  /\ \A p \in Reorderings(keys) : GetSignatures(p, Root, n) = sigs

\* C10: for every key list, in any order, and every threshold up to its length,
\* getSignatures returns exactly threshold signatures, by the lowest addresses,
\* ascending, and the same for every order of the keys.
C10_EveryThreshold ==
  (sigPc = "returned" /\ sigThreshold <= Len(candidates)) =>
    ThresholdLowestAscending(candidates, sigThreshold, sigReturned)

\* C10 for the thresholds from 1 up to the length of the key list, where the
\* loop's test `signatures.length === threshold` is met after a push.
C10_ThresholdFromOne ==
  (sigPc = "returned" /\ sigThreshold >= 1 /\ sigThreshold <= Len(candidates)) =>
    ThresholdLowestAscending(candidates, sigThreshold, sigReturned)

\* Threshold 0 with three keys: the test is never met and every key signs.
C10_Witness ==
  /\ sigPc = "returned"
  /\ sigThreshold = 0
  /\ Len(candidates) = 3
  /\ Len(sigReturned) = 3

\* The addresses of the keys of a list are pairwise different.
DistinctAddresses(keys) ==
  \A i, j \in 1..Len(keys) :
    i # j => WalletAddress(keys[i]) # WalletAddress(keys[j])

EligibleSigners(keys) == {WalletAddress(keys[i]) : i \in 1..Len(keys)}

Registration == {"storeCanonicalConfig", "relayProposal"}

\* The positions in calls of the calls to a collaborator.
CallsTo(fn) == {k \in 1..Len(calls) : calls[k].fn = fn}

\* Two chains of parsedConfigArray differ in a compared field.
ConfigsDiffer ==
  \E i, j \in 1..Len(parsedConfigArray) :
    \/ parsedConfigArray[i].newConfig # parsedConfigArray[j].newConfig
    \/ parsedConfigArray[i].safeAddress # parsedConfigArray[j].safeAddress
    \/ parsedConfigArray[i].moduleAddress # parsedConfigArray[j].moduleAddress
    \/ parsedConfigArray[i].safeInitData # parsedConfigArray[j].safeInitData

C14_DryRunRegistersNothing ==
  isDryRun =>
    /\ \A fn \in Registration : CallsTo(fn) = {}
    /\ ppc # "relay"
    /\ (ppc = "returned" /\ ~isEmpty) =>
         /\ returned.proposalRequest # NoRequest
         /\ returned.proposalRequest = constructed
         /\ returned.proposalRequest.compilerConfigId = UndefinedId
         /\ returned.merkleTree # NoTree
         /\ returned.merkleTree.root = returned.proposalRequest.tree.root
         /\ returned.canonicalConfigData = <<"json", parsedConfigArray>>
         /\ returned.parsedConfigArray = parsedConfigArray

\* A dry run over two chains returned.
C14_Witness ==
  /\ isDryRun
  /\ ppc = "returned"
  /\ returned.proposalRequest # NoRequest
  /\ Len(returned.proposalRequest.chainIds) = 2
  /\ returned.proposalRequest.compilerConfigId = UndefinedId
  /\ calls # <<>>

\* C15: without the dry-run flag, storeCanonicalConfig is called once and
\* before relayProposal, which is called once with the request carrying the id
\* storeCanonicalConfig returned; after a failed storeCanonicalConfig
\* relayProposal is not called.
C15_StoreThenRelay ==
  /\ \A fn \in Registration : Cardinality(CallsTo(fn)) <= 1
  /\ \A r \in CallsTo("relayProposal") :
       \E st \in CallsTo("storeCanonicalConfig") :
         /\ st < r
         /\ calls[st].arg \in ConfigIds
         /\ calls[r].arg = calls[st].arg
  /\ (\E st \in CallsTo("storeCanonicalConfig") : calls[st].arg = UndefinedId) =>
       /\ CallsTo("relayProposal") = {}
       /\ ppc = "thrown"
  /\ ppc = "relay" => Cardinality(CallsTo("storeCanonicalConfig")) = 1
  /\ (ppc = "returned" /\ ~isDryRun /\ ~isEmpty) =>
       /\ Cardinality(CallsTo("storeCanonicalConfig")) = 1
       /\ Cardinality(CallsTo("relayProposal")) = 1
       /\ returned.proposalRequest.compilerConfigId
            = calls[CHOOSE st \in CallsTo("storeCanonicalConfig") : TRUE].arg

\* A run registered and relayed the second id.
C15_Witness ==
  /\ ppc = "returned"
  /\ ~isDryRun
  /\ Len(calls) >= 2
  /\ calls[Len(calls) - 1] = Call("storeCanonicalConfig", 2)
  /\ calls[Len(calls)] = Call("relayProposal", 2)

\* C16: once constructed, the request changes in compilerConfigId only, which
\* is assigned at most once and is the id a storeCanonicalConfig call returned;
\* root, chainIds, chainStatus, owners, threshold and the addresses are those
\* of the construction, in the returned request too.
C16_RequestFrozenButCompilerConfigId ==
  [][/\ proposalRequest # NoRequest =>
          /\ proposalRequest' # NoRequest
          /\ [proposalRequest' EXCEPT !.compilerConfigId = UndefinedId]
               = [proposalRequest EXCEPT !.compilerConfigId = UndefinedId]
          /\ proposalRequest'.compilerConfigId # proposalRequest.compilerConfigId =>
               /\ proposalRequest.compilerConfigId = UndefinedId
               /\ calls'[Len(calls')] =
                    Call("storeCanonicalConfig", proposalRequest'.compilerConfigId)
          /\ constructed' = constructed
     /\ proposalRequest = NoRequest /\ proposalRequest' # NoRequest =>
          /\ constructed' = proposalRequest'
          /\ proposalRequest'.compilerConfigId = UndefinedId
     /\ returned' # returned /\ proposalRequest # NoRequest =>
          /\ returned'.proposalRequest = proposalRequest
          /\ \A f \in {"chainIds", "owners", "threshold", "safeAddress",
                        "moduleAddress", "safeInitData", "tree"} :
               returned'.proposalRequest[f] = constructed[f]]_vars

\* A request with an id attached was returned.
C16_Witness ==
  /\ ppc = "returned"
  /\ returned.proposalRequest # NoRequest
  /\ returned.proposalRequest.compilerConfigId \in ConfigIds
  /\ returned.proposalRequest # constructed

\* The networks collected with and without actions, by number.
WithActions == {i \in 1..Len(collected) : Len(collected[i].actionInputs) > 0}
WithoutActions == {i \in 1..Len(collected) : Len(collected[i].actionInputs) = 0}

\* C17: a chain without actions is in none of chainIds, chainStatus,
\* projectDeployments and gasEstimates of the request; every chain with
\* actions is in chainIds and in chainStatus once, in the order collected.
C17_ZeroActionChainsDropped ==
  proposalRequest # NoRequest =>
    /\ \A i \in WithoutActions :
         /\ \A k \in 1..Len(proposalRequest.chainIds) : proposalRequest.chainIds[k] # i
         /\ \A k \in 1..Len(proposalRequest.tree.chainStatus) :
              proposalRequest.tree.chainStatus[k].chainId # i
         /\ \A k \in 1..Len(proposalRequest.projectDeployments) :
              proposalRequest.projectDeployments[k].chainId # i
         /\ \A k \in 1..Len(proposalRequest.gasEstimates) :
              proposalRequest.gasEstimates[k].chainId # i
    /\ \A i \in WithActions :
         /\ Cardinality({k \in 1..Len(proposalRequest.chainIds) :
                           proposalRequest.chainIds[k] = i}) = 1
         /\ Cardinality({k \in 1..Len(proposalRequest.tree.chainStatus) :
                           proposalRequest.tree.chainStatus[k].chainId = i}) = 1
    /\ \A k \in 1..(Len(proposalRequest.chainIds) - 1) :
         proposalRequest.chainIds[k] < proposalRequest.chainIds[k + 1]
    /\ \A k \in 1..(Len(proposalRequest.tree.chainStatus) - 1) :
         proposalRequest.tree.chainStatus[k].chainId
           < proposalRequest.tree.chainStatus[k + 1].chainId

\* The first network has no actions, the second has: the request lists the
\* second only.
C17_Witness ==
  /\ proposalRequest # NoRequest
  /\ 1 \in WithoutActions
  /\ 2 \in WithActions
  /\ proposalRequest.chainIds = <<2>>
  /\ Len(proposalRequest.projectDeployments) = 1
  /\ Len(proposalRequest.gasEstimates) = 1

\* C18: with no network configured or no action on any network,
\* buildParsedConfigArray reports isEmpty and calls neither the gas estimation
\* nor the compiler nor the artifact loader, and propose returns the empty
\* result: no tree, no network gas estimate, no prompt, no registration.
C18_NothingToExecute ==
  WithActions = {} =>
    /\ parsedConfigArray = <<>>
    /\ \A k \in 1..Len(calls) : calls[k].fn = "forge script"
    /\ merkleTree = NoTree
    /\ gasEstimates = <<>>
    /\ proposalRequest = NoRequest
    /\ ppc \in {"start", "collect", "script", "exited", "thrown", "built", "returned"}
    /\ ppc \in {"built", "returned"} => isEmpty
    /\ ppc = "returned" => returned = EmptyResult

\* A run asked to recompile and to prompt, over networks without actions,
\* returned empty.
C18_Witness ==
  /\ Len(collected) = 2
  /\ WithActions = {}
  /\ forceRecompile
  /\ ~confirm
  /\ ~isDryRun
  /\ ppc = "returned"
  /\ returned = EmptyResult

\* The leaves of a chain in the tree, all of them and those of some types.
LeavesOfChain(c) == {l \in merkleTree.leavesWithProofs : l.chainId = c}
LeavesOfChainOfType(c, types) == {l \in LeavesOfChain(c) : l.leafType \in types}

C20_OneTreeOneRoot ==
  /\ Cardinality(CallsTo("makeSphinxMerkleTree")) <= 1
  /\ merkleTree # NoTree =>
       /\ Cardinality(CallsTo("makeSphinxMerkleTree")) = 1
       /\ {l.chainId : l \in merkleTree.leavesWithProofs} = WithActions
  /\ proposalRequest # NoRequest =>
       /\ merkleTree # NoTree
       /\ proposalRequest.tree.root = merkleTree.root
       /\ \A k \in 1..Len(proposalRequest.projectDeployments) :
            /\ proposalRequest.projectDeployments[k].deploymentId = merkleTree.root
            /\ \A m \in 1..Len(proposalRequest.projectDeployments) :
                 proposalRequest.projectDeployments[k].chainId
                   = proposalRequest.projectDeployments[m].chainId => k = m
  /\ (ppc = "returned" /\ ~isEmpty) => returned.merkleTree = merkleTree

\* A request over two chains: two project deployments with the tree's root.
C20_Witness ==
  /\ proposalRequest # NoRequest
  /\ Len(proposalRequest.projectDeployments) = 2
  /\ proposalRequest.projectDeployments[1].deploymentId
       = proposalRequest.projectDeployments[2].deploymentId
  /\ proposalRequest.projectDeployments[1].deploymentId = proposalRequest.tree.root

\* The leaves of a chain in the tree of the run, all of them and those of a type.
ChainLeaves(c) == {l \in leaves : l.chainId = c}
ChainLeavesOfType(c, t) == {l \in ChainLeaves(c) : l.leafType = t}

\* C21: the indices of a chain's leaves are 0, 1, ... without gap or repeat;
\* a SETUP leaf has index 0; the one PROPOSE leaf has index 1 with a SETUP
\* leaf and 0 without, which is the index the helper computes for it; the one
\* APPROVE leaf has the next index; and the leaves a chain accepted are the
\* leaves with these indices.
C21_GaplessIndices ==
  \A c \in Chains :
    /\ {l.index : l \in ChainLeaves(c)} = 0..(Cardinality(ChainLeaves(c)) - 1)
    /\ \A l, m \in ChainLeaves(c) : l.index = m.index => l = m
    /\ \A l \in ChainLeavesOfType(c, "setup") : l.index = 0
    /\ Cardinality(ChainLeavesOfType(c, "propose")) = 1
    /\ Cardinality(ChainLeavesOfType(c, "approve")) = 1
    /\ \A l \in ChainLeavesOfType(c, "propose") :
         /\ l.index = (IF ChainLeavesOfType(c, "setup") # {} THEN 1 ELSE 0)
         /\ l.index = ProposalLeafIndex(c)
         /\ \A m \in ChainLeavesOfType(c, "approve") :
              /\ m.index = l.index + 1
              /\ m.index = ApproveDeploymentLeafIndex(c)
    /\ \A i \in 1..Len(accepted[c]) :
         /\ accepted[c][i].index = i - 1
         /\ accepted[c][i].leafType = "setup" => i = 1
         /\ accepted[c][i].leafType = "propose" => i = ProposalLeafIndex(c) + 1
         /\ accepted[c][i].leafType = "approve" => i = ProposalLeafIndex(c) + 2

\* A chain with a SETUP leaf and a chain without have both accepted their
\* leaves up to APPROVE, at the indices 0, 1, 2 and 0, 1.
C21_Witness ==
  /\ \E c \in Chains :
       /\ ContainsSetupLeaf(c)
       /\ Len(accepted[c]) >= 3
       /\ accepted[c][1].leafType = "setup"
       /\ accepted[c][2].leafType = "propose"
       /\ accepted[c][3].leafType = "approve"
  /\ \E c \in Chains :
       /\ ~ContainsSetupLeaf(c)
       /\ Len(accepted[c]) >= 2
       /\ accepted[c][1].leafType = "propose"
       /\ accepted[c][2].leafType = "approve"

\* What was handed to the verifier is what the tree records for the leaf.
PresentedAsRecorded ==
  /\ presented.leaf = presented.recorded.leaf
  /\ presented.proof = presented.recorded.proof

\* The node a leaf's proof pairs with its k-th element: the leaf's hash folded
\* with the elements before.
PairedNode(recorded, k) ==
  RecomputeRoot(LeafHash(recorded.leaf), SubSeq(recorded.proof, 1, k - 1))

\* The k-th element of the proof is the node's own hash: the node is the final
\* one of a level of odd cardinality and was paired with itself.
PairedWithItself(recorded, k) == recorded.proof[k].hash = PairedNode(recorded, k)

\* What was handed in differs from the record only in the side of elements
\* that pair a node with itself.
OnlySelfPairsFlipped ==
  /\ presented.leaf = presented.recorded.leaf
  /\ Len(presented.proof) = Len(presented.recorded.proof)
  /\ \A k \in 1..Len(presented.proof) :
       /\ presented.proof[k].hash = presented.recorded.proof[k].hash
       /\ presented.proof[k].position # presented.recorded.proof[k].position
            => PairedWithItself(presented.recorded, k)

\* C22 as stated: every leaf verifies with its recorded proof against the
\* root, and verification fails when the leaf or any element of the proof
\* (a sibling hash or its side) is changed, for leaf sets of every size.
C22_AnyChangeFailsVerification ==
  /\ \A e \in firstTree.leavesWithProofs :
       VerifyMerkleProof(firstTree.root, e.leaf, e.proof)
  /\ presented # NothingPresented =>
       /\ presented.recorded \in firstTree.leavesWithProofs
       /\ verdict <=> PresentedAsRecorded

\* C22 (amended): every leaf verifies with its recorded proof against the
\* root, all proofs of a tree have one length, and verification fails when
\* the leaf or a sibling hash is changed or when the side of a sibling is
\* flipped, except for the element that pairs the final node of a level of odd
\* cardinality with itself: its side can be flipped and the proof still
\* verifies.
C22_AnyChangeButSelfPairSideFails ==
  /\ \A e \in firstTree.leavesWithProofs :
       /\ VerifyMerkleProof(firstTree.root, e.leaf, e.proof)
       /\ \A f \in firstTree.leavesWithProofs : Len(e.proof) = Len(f.proof)
  /\ presented # NothingPresented =>
       /\ presented.recorded \in firstTree.leavesWithProofs
       /\ verdict <=> OnlySelfPairsFlipped
       /\ presented.changed \in {"leaf", "hash"} => ~verdict
       /\ presented.changed = "nothing" => verdict

\* The last of an odd number of leaves was handed in with the side of its
\* first sibling flipped, and verified.
C22_Witness ==
  /\ presented # NothingPresented
  /\ Len(treeInput) % 2 = 1
  /\ presented.changed = "position"
  /\ presented.at = 1
  /\ PairedWithItself(presented.recorded, 1)
  /\ ~PresentedAsRecorded
  /\ verdict

\* The leaves of a sequence, as a set.
LeafSet(leafSeq) == {leafSeq[i] : i \in 1..Len(leafSeq)}

ExecutorReturned == pc = "p_check3"

\* The leaf the run handed in last on the chain of the loop.
LastSubmitted ==
  FindProposalRequestLeaf(submitted[ChainId][Len(submitted[ChainId])], ChainId)

RemoteCallMade == \E fn \in Registration : CallsTo(fn) # {}

FirstRemoteCall ==
  CHOOSE k \in 1..Len(calls) :
    /\ calls[k].fn \in Registration
    /\ \A j \in 1..(k - 1) : calls[j].fn \notin Registration

CalledBeforeRegistration(fn) == \E k \in CallsTo(fn) : k < FirstRemoteCall

\* The steps of a run before the preview: the API key was found and every
\* network collected, a chain has actions, the tree is built and every
\* estimate resolved, in this order.
CollectedTreeAndEstimates ==
  /\ networkName = Len(collected) + 1
  /\ Len(pushed) = Len(collected)
  /\ WithActions # {}
  /\ ~isEmpty
  /\ merkleTree # NoTree
  /\ CalledBeforeRegistration("makeSphinxMerkleTree")
  /\ Len(gasEstimatesPromises) = Cardinality(WithActions)
  /\ \A i \in 1..Len(gasEstimatesPromises) :
       gasEstimatesPromises[i].state = "resolved"
  /\ Len(gasEstimates) = Cardinality(WithActions)
  /\ \A k \in CallsTo("getNetworkGasEstimate") :
       /\ k < FirstRemoteCall
       /\ \A j \in CallsTo("makeSphinxMerkleTree") : j < k

\* A failing or exiting step before registration leaves no remote call.
FailureBeforeRegistration ==
  /\ ppc' \in {"thrown", "exited"}
  /\ ppc \notin {"register", "relay", "thrown", "exited"}

\* C25 as stated: storeCanonicalConfig and relayProposal are called only after
\* the API key was found, every network collected, a chain has actions, the
\* tree is built, every gas estimate resolved, the preview was shown or
\* (without confirm and dry run) the prompt resolved, and the configs compared
\* equal; a step failing or exiting leaves no remote call.
C25_RegistrationAfterPreviewOrPrompt ==
  /\ [](RemoteCallMade =>
          /\ CollectedTreeAndEstimates
          /\ \/ CalledBeforeRegistration("console.log")
             \/ /\ ~confirm
                /\ ~isDryRun
                /\ CalledBeforeRegistration("prompt")
          /\ ConfigsAgree(parsedConfigArray))
  /\ [][FailureBeforeRegistration => ~RemoteCallMade']_vars

\* C25 (amended): as stated, except that with confirm and silent set nothing
\* is shown and nobody is asked before the remote calls: the preview is shown
\* exactly with confirm and without silent, the prompt is made exactly without
\* confirm.
C25_RegistrationAfterChecks ==
  /\ [](RemoteCallMade =>
          /\ CollectedTreeAndEstimates
          /\ ~isDryRun
          /\ CalledBeforeRegistration("console.log") <=> (confirm /\ ~silent)
          /\ CalledBeforeRegistration("prompt") <=> ~confirm
          /\ ConfigsAgree(parsedConfigArray))
  /\ [][FailureBeforeRegistration => ~RemoteCallMade']_vars

\* A confirmed, silent run over two chains with actions was relayed.
C25_Witness ==
  /\ confirm
  /\ silent
  /\ Cardinality(WithActions) = 2
  /\ CallsTo("relayProposal") # {}
  /\ ppc = "returned"

\* ------------------------------------------------------------------ C26
\* The chains with actions, in collection order.
ChainsWithActions ==
  LET withActions == SelectSeq(collected, HasActions)
  IN [i \in 1..Len(withActions) |-> Number(withActions[i].chainId)]

GasEstimatesRequested == CallsTo("getNetworkGasEstimate") # {}

\* C26: the network gas estimates are requested together, one per chain with
\* actions and before any of them is awaited; in whatever order they settle,
\* gasEstimates has one entry per chain with actions, the i-th being the
\* estimate of the i-th such chain as collected; one estimate failing fails
\* propose, and no ProposalRequest is made, registered or returned.
C26_EstimatesInCollectionOrder ==
  /\ GasEstimatesRequested =>
       /\ Len(gasEstimatesPromises) = Len(ChainsWithActions)
       /\ \A i \in 1..Len(ChainsWithActions) :
            /\ gasEstimatesPromises[i].chainId = ChainsWithActions[i]
            /\ Cardinality({k \in CallsTo("getNetworkGasEstimate") :
                              calls[k].arg = ChainsWithActions[i]}) = 1
       /\ Cardinality(CallsTo("getNetworkGasEstimate")) = Len(ChainsWithActions)
  /\ (\E i \in 1..Len(gasEstimatesPromises) : IsSettled(gasEstimatesPromises[i])) =>
       GasEstimatesRequested
  /\ gasEstimates # <<>> =>
       /\ Len(gasEstimates) = Len(ChainsWithActions)
       /\ \A i \in 1..Len(ChainsWithActions) :
            gasEstimates[i] = NetworkGasEstimate(ChainsWithActions[i])
  /\ proposalRequest # NoRequest => proposalRequest.gasEstimates = gasEstimates
  /\ (\E i \in 1..Len(gasEstimatesPromises) :
        gasEstimatesPromises[i].state = "rejected") =>
       /\ ppc \in {"awaiting", "thrown"}
       /\ gasEstimates = <<>>
       /\ proposalRequest = NoRequest
       /\ returned = NotReturned
       /\ ~RemoteCallMade

\* The estimate of the second chain resolved before that of the first, and the
\* request was returned.
C26_Witness ==
  /\ Len(gasEstimatesPromises) = 2
  /\ gasEstimatesPromises[1].settledAs = 2
  /\ gasEstimatesPromises[2].settledAs = 1
  /\ ppc = "returned"
  /\ returned.proposalRequest # NoRequest

\* ------------------------------------------------------------------ C27
\* The forge scripts run so far, and whether the last of them exited with 0.
ForgeScripts == CallsTo("forge script")

LastScriptSucceeded ==
  /\ ForgeScripts # {}
  /\ \A k \in ForgeScripts : calls[k].arg = 0

\* C27: the networks are collected one after another through the one file at
\* deploymentInfoPath: when a network's script starts the file does not exist,
\* the deployment info pushed for a network is the one that network's script
\* wrote, never a file of an earlier network or run, and a script that exits
\* non-zero or leaves no file ends the collection with an error and nothing
\* pushed for its network.
C27_NoStaleDeploymentInfo ==
  /\ Len(pushed) = IF networkName = 0 THEN 0 ELSE networkName - 1
  /\ ppc = "script" =>
       /\ deploymentInfoFile = NoFile
       /\ Cardinality(ForgeScripts) = networkName - 1
  /\ \A i \in 1..Len(pushed) :
       /\ pushed[i].writtenFor = i
       /\ pushed[i].deploymentInfo = DeploymentInfo(collected[i])
       /\ pushed[i].actionInputs = collected[i].actionInputs
  /\ \A k \in ForgeScripts :
       calls[k].arg # 0 =>
         /\ k = Len(calls)
         /\ ppc = "exited"
         /\ Len(pushed) = Cardinality(ForgeScripts) - 1
  /\ Len(pushed) \in {Cardinality(ForgeScripts), Cardinality(ForgeScripts) - 1}
  /\ (LastScriptSucceeded /\ Len(pushed) < Cardinality(ForgeScripts)) =>
       /\ ppc = "thrown"
       /\ deploymentInfoFile = NoFile
  /\ (LastScriptSucceeded /\ ppc # "script" /\ deploymentInfoFile = NoFile) =>
       /\ ppc = "thrown"
       /\ Len(pushed) = Cardinality(ForgeScripts) - 1
  /\ \A i \in 1..Len(parsedConfigArray) :
       parsedConfigArray[i].newConfig = collected[i].newConfig

\* The first network was collected, its file removed, and the second
\* network's script exited with 0 without writing one: the collection threw
\* with one network pushed.
C27_Witness ==
  /\ Len(collected) = 2
  /\ networkName = 2
  /\ ppc = "thrown"
  /\ LastScriptSucceeded
  /\ Cardinality(ForgeScripts) = 2
  /\ deploymentInfoFile = NoFile
  /\ Len(pushed) = 1

\* ------------------------------------------------------------------ C28
\* The file system after the i-th call made.
FileSystemAfter(i) ==
  IF i < Len(sampleCalls) THEN sampleCalls[i + 1].before ELSE fs

\* What the arguments have written at a path when it is a sample file's.
SampleFileAt(path) ==
  IF path = ConfigPath(sampleArgs) THEN ConfigFile(sampleArgs)
  ELSE IF path = ContractFilePath(sampleArgs) THEN ContractFile(sampleArgs)
  ELSE IF sampleArgs.integration = "hardhat" THEN HardhatTestFile(sampleArgs)
  ELSE IF path = FoundryTestFilePath(sampleArgs) THEN FoundryTestFile(sampleArgs)
  ELSE FoundryDeployFile(sampleArgs)

\* C28: writeSampleProjectFiles leaves every file and directory that exists
\* as it is; a path it changes held nothing before and holds a directory named
\* by the arguments or the sample file of that path afterwards; a second call
\* with the same arguments changes nothing.
C28_ExistingFilesKept ==
  /\ \A i \in 1..Len(sampleCalls) :
       \A path \in Paths :
         LET before == sampleCalls[i].before[path]
             after == FileSystemAfter(i)[path]
         IN /\ before # Absent => after = before
            /\ after # before =>
                 \/ /\ after = Directory
                    /\ path \in DirPaths
                 \/ /\ path \in SamplePaths(sampleArgs)
                    /\ after = SampleFileAt(path)
  /\ Len(sampleCalls) = 2 =>
       /\ fs = sampleCalls[2].before
       /\ sampleCalls[2].threw = sampleCalls[1].threw

\* A foundry project whose contract file existed with content of its own: the
\* first call wrote the config, test and script files around it and created a
\* directory, and the second call was made.
C28_Witness ==
  /\ Len(sampleCalls) = 2
  /\ sampleArgs.integration = "foundry"
  /\ sampleArgs.scriptDirPath # NoPath
  /\ ~sampleCalls[1].threw
  /\ sampleCalls[1].before[ContractFilePath(sampleArgs)] = OldFile
  /\ fs[ContractFilePath(sampleArgs)] = OldFile
  /\ sampleCalls[1].before[<<"a", "b">>] = Absent
  /\ fs[<<"a", "b">>] = Directory
  /\ fs[ConfigPath(sampleArgs)] = ConfigFile(sampleArgs)
  /\ fs[FoundryTestFilePath(sampleArgs)] = FoundryTestFile(sampleArgs)
  /\ fs[ScriptFilePath(sampleArgs)] = FoundryDeployFile(sampleArgs)

====
